---- MODULE Spec2Model ----
(***************************************************************************)
(* Markdown to PDF generator: the HTML sanitizer, the parser's plugin      *)
(* pipeline, the conversion entry points and the line-oriented block       *)
(* parser, each as a state machine translated from the JavaScript source.  *)
(*                                                                         *)
(*   SpecSan     Sanitizer.sanitize applied to bounded DOM forests         *)
(*   Spec        MarkdownToPDF.convert / PDFGenerator.generateFromMarkdown *)
(*               with registered plugins, step by step                     *)
(*   SpecBlocks  MarkdownParser._parseBlocks, one scan position per step   *)
(*   SpecInline  MarkdownParser._parseInline on one inline construct        *)
(*   SpecHeading MarkdownParser._parseHeading on one heading line           *)
(*   SpecPreserve parse followed by sanitize on one line of markdown        *)
(*   SpecImages  ImageProcessor.process on img elements                     *)
(*   SpecUrl     Sanitizer._isValidURL on one attribute value               *)
(*   SpecText    Sanitizer.sanitize on forests with distinct text nodes     *)
(*   SpecBatch   batchConvert / batchProcess with asynchronous completions  *)
(*   SpecConfig  ConfigManager.set, MarkdownToPDF.setConfig and convert     *)
(*   SpecToc     TOCGenerator._buildTOCTree on a list of heading levels     *)
(*   SpecHeadingInline  parse (block stage, inline stage) on a heading line *)
(***************************************************************************)
EXTENDS Integers, Sequences, FiniteSets, TLC

VARIABLES
  \* ---- Sanitizer (SpecSan)
  hasDocument,   \* typeof document !== 'undefined'
  sanHtml,       \* the html argument of the next sanitize call (serialized)
  sanTree,       \* container.childNodes after the last _sanitizeNode
  sanFirst,      \* the string returned by the first sanitize call
  sanOut,        \* the string returned by the last sanitize call
  sanCalls,      \* number of sanitize calls made so far
  \* ---- MarkdownToPDF / MarkdownParser / PDFGenerator (Spec)
  plugins,       \* parser.plugins, in registration order
  sanitizeHTML,  \* config.sanitizeHTML
  env,           \* "browser" (window), "node" (process.versions.node), "none"
  entry,         \* the entry point running: "convert", "generateFromMarkdown"
  pc,            \* position in the running entry point
  idx,           \* loop index i of _applyPlugins (1-based)
  markdown,      \* the markdown argument of the running call
  content,       \* the local html / result / document value
  trace,         \* calls and returns of the stages so far
  pending,       \* the browser event still to come: "onload", "timer", "none"
  cbCtx,         \* the try/catch context the callback is about to run in
  cbArgs,        \* the arguments the callback is about to be invoked with
  cbCalls,       \* the invocations of the caller's callback so far
  lastRegister,  \* the last registerPlugin call: its argument and its outcome
  \* ---- MarkdownParser._parseBlocks (SpecBlocks)
  lines,         \* text.split('\n'): the source lines, each a sequence of characters
  scanIndex,     \* the loop variable i of _parseBlocks (0-based)
  htmlBlocks,    \* the array html of emitted blocks
  scans,         \* the values of i at which the loop body has run, in order
  blocksPc,      \* "scan" inside the while loop, "done" after the return
  \* ---- single calls of the pure functions (SpecInline, SpecHeading, ...)
  fnArg,         \* the argument of the call
  fnRet,         \* the value the call returned
  fnDone,        \* whether the call has returned
  \* ---- MarkdownToPDF.batchConvert / PDFGenerator.batchProcess (SpecBatch)
  batchEntry,    \* the entry point running: "batchConvert", "batchProcess"
  batchEnv,      \* "browser" (window, no require), "node", "none"
  files,         \* the files argument: for each file, what goes wrong with it
  callbackThrows,\* whether the caller's batch callback throws when invoked
  filePc,        \* for each file, the asynchronous operation outstanding
  completed,     \* the closure variable completed
  errors,        \* the closure variable errors: the index of each entry
  results,       \* the closure variable results: the index of each entry
  batchCalls,    \* the invocations of the batch callback so far
  \* ---- ConfigManager / MarkdownToPDF.setConfig (SpecConfig)
  managerConfig, \* configManager.config, the object set() writes into
  facadeConfig,  \* the config property of the MarkdownToPDF instance
  componentConfig, \* the object the constructor handed to the parser, the
                 \* renderer, the generator and the built-in plugins
  lastSet,       \* the last set / setConfig call and whether it threw
  lastConvert    \* the configuration values the last convert call used

sanVars == <<hasDocument, sanHtml, sanTree, sanFirst, sanOut, sanCalls>>

pipeVars == <<plugins, sanitizeHTML, env, entry, pc, idx, markdown, content,
              trace, pending, cbCtx, cbArgs, cbCalls, lastRegister>>

blockVars == <<lines, scanIndex, htmlBlocks, scans, blocksPc>>

fnVars == <<fnArg, fnRet, fnDone>>

batchVars == <<batchEntry, batchEnv, files, callbackThrows, filePc, completed,
               errors, results, batchCalls>>

cfgVars == <<managerConfig, facadeConfig, componentConfig, lastSet, lastConvert>>

vars == <<sanVars, pipeVars, blockVars, fnVars, batchVars, cfgVars>>

(***************************************************************************)
(* Strings are sequences of one-character strings.                         *)
(***************************************************************************)
StartsWith(s, p) ==
  /\ Len(s) >= Len(p)
  /\ SubSeq(s, 1, Len(p)) = p

LowerChar(c) ==
  CASE c = "J" -> "j"
    [] c = "D" -> "d"
    [] c = "H" -> "h"
    [] c = "V" -> "v"
    [] OTHER -> c

ToLowerCase(s) == [k \in 1..Len(s) |-> LowerChar(s[k])]

(***************************************************************************)
(* Sanitizer: whitelists                                                   *)
(***************************************************************************)
allowedTags ==
  { "h1", "h2", "h3", "h4", "h5", "h6", "p", "br", "hr",
    "strong", "em", "u", "s", "code", "pre", "ul", "ol", "li",
    "blockquote", "table", "thead", "tbody", "tr", "th", "td",
    "a", "img", "div", "span", "sup", "sub", "dl", "dt", "dd" }

allowedAttributes(tagName) ==
  CASE tagName = "a"     -> {"href", "title", "target"}
    [] tagName = "img"   -> {"src", "alt", "title", "width", "height"}
    [] tagName = "code"  -> {"class"}
    [] tagName = "pre"   -> {"class"}
    [] tagName = "div"   -> {"class", "id"}
    [] tagName = "span"  -> {"class"}
    [] tagName = "table" -> {"class"}
    [] tagName = "th"    -> {"align", "colspan", "rowspan"}
    [] tagName = "td"    -> {"align", "colspan", "rowspan"}
    [] OTHER -> {}

allowedSchemes ==
  << <<"h","t","t","p",":">>, <<"h","t","t","p","s",":">>,
     <<"m","a","i","l","t","o",":">>, <<"d","a","t","a",":">> >>

\* Sanitizer.prototype._isValidURL
SanIsValidURL(url) ==
  IF url = <<>> THEN FALSE
  ELSE IF StartsWith(ToLowerCase(url), <<"j","a","v","a","s","c","r","i","p","t",":">>) THEN FALSE
  ELSE IF StartsWith(ToLowerCase(url), <<"v","b","s","c","r","i","p","t",":">>) THEN FALSE
  ELSE IF StartsWith(url, <<"/","/">>) THEN FALSE
  ELSE IF StartsWith(ToLowerCase(url), <<"d","a","t","a",":">>)
       THEN StartsWith(url, <<"d","a","t","a",":","i","m","a","g","e","/">>)
  ELSE IF \E k \in 1..Len(allowedSchemes) : StartsWith(url, allowedSchemes[k]) THEN TRUE
  ELSE IF \/ StartsWith(url, <<"/">>)
          \/ StartsWith(url, <<".","/">>)
          \/ StartsWith(url, <<".",".","/">>) THEN TRUE
  ELSE IF StartsWith(url, <<"#">>) THEN TRUE
  ELSE FALSE

(***************************************************************************)
(* DOM nodes.  type is the DOM nodeType: 1 element, 3 text, 8 comment.     *)
(* attrs is the ordered attribute list, kids the ordered childNodes.       *)
(***************************************************************************)
TextNode(t)          == [type |-> 3, tag |-> "", attrs |-> <<>>, kids |-> <<>>, text |-> t]
CommentNode          == [type |-> 8, tag |-> "", attrs |-> <<>>, kids |-> <<>>, text |-> <<>>]
Element(tg, as, ks)  == [type |-> 1, tag |-> tg, attrs |-> as, kids |-> ks, text |-> <<>>]

Attr(n, v) == [name |-> n, value |-> v]

\* the characters of the attribute names that occur in the model
AttrNameChars(n) ==
  CASE n = "onclick" -> <<"o","n","c","l","i","c","k">>
    [] n = "onerror" -> <<"o","n","e","r","r","o","r">>
    [] n = "class"   -> <<"c","l","a","s","s">>
    [] n = "id"      -> <<"i","d">>
    [] n = "href"    -> <<"h","r","e","f">>
    [] n = "src"     -> <<"s","r","c">>
    [] n = "alt"     -> <<"a","l","t">>
    [] OTHER         -> <<"x">>

\* element.removeAttribute(name)
RemoveAttribute(attrs, n) == SelectSeq(attrs, LAMBDA a : a.name # n)

\* Sequence s without the element at index k, and r put at its end
SpliceAtEnd(s, k, r) == SubSeq(s, 1, k - 1) \o SubSeq(s, k + 1, Len(s)) \o r

\* Sequence s with the element at index k replaced by the sequence r
Splice(s, k, r) == SubSeq(s, 1, k - 1) \o r \o SubSeq(s, k + 1, Len(s))

\* Sanitizer.prototype._sanitizeAttributes: the while (i--) loop, at
\* JavaScript index i - 1 of the live attribute list
RECURSIVE SanitizeAttributesLoop(_, _, _)
SanitizeAttributesLoop(attrs, i, tagName) ==
  IF i = 0 THEN attrs
  ELSE LET attrName == attrs[i].name
           value    == attrs[i].value
       IN IF attrName \notin allowedAttributes(tagName)
          THEN SanitizeAttributesLoop(RemoveAttribute(attrs, attrName), i - 1, tagName)
          ELSE LET a1 == IF attrName \in {"href", "src"} /\ ~SanIsValidURL(value)
                         THEN RemoveAttribute(attrs, attrName) ELSE attrs
                   a2 == IF StartsWith(AttrNameChars(attrName), <<"o","n">>)
                         THEN RemoveAttribute(a1, attrName) ELSE a1
               IN SanitizeAttributesLoop(a2, i - 1, tagName)

SanitizeAttributes(attrs, tagName) == SanitizeAttributesLoop(attrs, Len(attrs), tagName)

\* Sanitizer.prototype._sanitizeNode / _sanitizeElement.
\* SanitizeNodeLoop is the while (i--) loop over the live childNodes list, at
\* JavaScript index i - 1; SanitizeElement gives the nodes that stand at the
\* element's position in the parent when _sanitizeElement returns.
RECURSIVE SanitizeNodeLoop(_, _), SanitizeElement(_)
SanitizeElement(element) ==
  IF element.tag \notin allowedTags
  THEN element.kids
  ELSE << [element EXCEPT !.attrs = SanitizeAttributes(element.attrs, element.tag),
                          !.kids  = SanitizeNodeLoop(element.kids, Len(element.kids))] >>

SanitizeNodeLoop(childNodes, i) ==
  IF i = 0 THEN childNodes
  ELSE LET child == childNodes[i]
       IN IF child.type = 1
          THEN SanitizeNodeLoop(Splice(childNodes, i, SanitizeElement(child)), i - 1)
          ELSE IF child.type = 3
          THEN SanitizeNodeLoop(childNodes, i - 1)
          ELSE SanitizeNodeLoop(Splice(childNodes, i, <<>>), i - 1)

SanitizeNode(childNodes) == SanitizeNodeLoop(childNodes, Len(childNodes))

(***************************************************************************)
(* innerHTML.  The serialized string is a sequence of tokens: one token    *)
(* per start tag, end tag and comment, and one per character of text, so   *)
(* that the boundaries between adjacent text nodes are lost as they are in *)
(* a string.                                                               *)
(***************************************************************************)
voidTags == {"img", "br", "hr"}

OpenTok(tg, as) == [k |-> "open",    tag |-> tg, attrs |-> as,   ch |-> ""]
CloseTok(tg)    == [k |-> "close",   tag |-> tg, attrs |-> <<>>, ch |-> ""]
CharTok(c)      == [k |-> "char",    tag |-> "", attrs |-> <<>>, ch |-> c]
CommentTok      == [k |-> "comment", tag |-> "", attrs |-> <<>>, ch |-> ""]

\* the innerHTML getter
RECURSIVE SerializeNodes(_)
SerializeNode(n) ==
  IF n.type = 3 THEN [j \in 1..Len(n.text) |-> CharTok(n.text[j])]
  ELSE IF n.type = 8 THEN <<CommentTok>>
  ELSE IF n.tag \in voidTags THEN <<OpenTok(n.tag, n.attrs)>>
  ELSE <<OpenTok(n.tag, n.attrs)>> \o SerializeNodes(n.kids) \o <<CloseTok(n.tag)>>

SerializeNodes(ns) ==
  IF ns = <<>> THEN <<>> ELSE SerializeNode(Head(ns)) \o SerializeNodes(Tail(ns))

\* index of the first token at or after pos that is not a character
RECURSIVE TextEnd(_, _)
TextEnd(toks, pos) ==
  IF pos <= Len(toks) /\ toks[pos].k = "char" THEN TextEnd(toks, pos + 1) ELSE pos

\* the innerHTML setter: the sibling list starting at token pos, up to the
\* enclosing end tag or the end of the string
RECURSIVE ParseNodes(_, _)
ParseNodes(toks, pos) ==
  IF pos > Len(toks) \/ toks[pos].k = "close"
  THEN [nodes |-> <<>>, pos |-> pos]
  ELSE IF toks[pos].k = "char"
  THEN LET e    == TextEnd(toks, pos)
           rest == ParseNodes(toks, e)
       IN [nodes |-> <<TextNode([j \in 1..(e - pos) |-> toks[pos + j - 1].ch])>> \o rest.nodes,
           pos |-> rest.pos]
  ELSE IF toks[pos].k = "comment"
  THEN LET rest == ParseNodes(toks, pos + 1)
       IN [nodes |-> <<CommentNode>> \o rest.nodes, pos |-> rest.pos]
  ELSE IF toks[pos].tag \in voidTags
  THEN LET rest == ParseNodes(toks, pos + 1)
       IN [nodes |-> <<Element(toks[pos].tag, toks[pos].attrs, <<>>)>> \o rest.nodes,
           pos |-> rest.pos]
  ELSE LET inner == ParseNodes(toks, pos + 1)
           rest  == ParseNodes(toks, inner.pos + 1)
       IN [nodes |-> <<Element(toks[pos].tag, toks[pos].attrs, inner.nodes)>> \o rest.nodes,
           pos |-> rest.pos]

ParseHTML(html) == ParseNodes(html, 1).nodes

\* Sanitizer.prototype.sanitize, given whether a global document exists.
\* Without one the container is a plain object: innerHTML is an ordinary
\* property and childNodes stays the empty array.
ContainerChildNodes(html, doc) == IF doc THEN ParseHTML(html) ELSE <<>>

SanitizedChildNodes(html, doc) == SanitizeNode(ContainerChildNodes(html, doc))

Sanitize(html, doc) ==
  IF html = <<>> THEN <<>>
  ELSE IF doc THEN SerializeNodes(SanitizedChildNodes(html, doc))
  ELSE html

(***************************************************************************)
(* The conversion pipeline.  A string that flows through the pipeline is   *)
(* modelled by the sequence of transformations applied to the markdown:    *)
(* every stage and every plugin appends its own mark, so two values are    *)
(* equal exactly when they were produced the same way.                     *)
(***************************************************************************)
Mark(f, i) == [f |-> f, i |-> i]

NoError        == [kind |-> "none", i |-> 0]
PluginError(i) == [kind |-> "plugin", i |-> i]        \* thrown by plugins[i].process
CallbackError(n) == [kind |-> "callback", i |-> n]    \* thrown by the n-th callback invocation
EnvError       == [kind |-> "unsupported", i |-> 0]   \* 'Unsupported environment for PDF generation'
DomError       == [kind |-> "dom", i |-> 0]           \* thrown by a DOM call

NullResult     == [kind |-> "null", html |-> <<>>]
NodeResult(h)  == [kind |-> "node", html |-> h]       \* {html, config, instructions}
PrintResult    == [kind |-> "print", html |-> <<>>]   \* {success, message}

Event(ev, stage, who, val) == [ev |-> ev, stage |-> stage, who |-> who, val |-> val]

\* a plugin object: stage "" is an unset stage
Plugin(name, stage, throws) ==
  [kind |-> "plugin", name |-> name, stage |-> stage, throws |-> throws]

\* MarkdownToPDF.prototype._initializePlugins under the default configuration
\* (syntaxHighlighting true, enableTOC false)
BuiltInPlugins ==
  << Plugin("SyntaxHighlighter", "postprocess", FALSE),
     Plugin("ImageProcessor", "postprocess", FALSE) >>

\* the block parser variables when _parseBlocks is not being stepped
BlocksParked ==
  /\ lines = <<>>
  /\ scanIndex = 0
  /\ htmlBlocks = <<>>
  /\ scans = <<>>
  /\ blocksPc = "parked"

\* the configuration variables when no configuration call is modelled
CfgParked ==
  /\ managerConfig = <<>>
  /\ facadeConfig = <<>>
  /\ componentConfig = <<>>
  /\ lastSet = <<>>
  /\ lastConvert = <<>>

\* the batch variables when no batch call is modelled
BatchParked ==
  /\ batchEntry = "none"
  /\ batchEnv = "none"
  /\ files = <<>>
  /\ callbackThrows = FALSE
  /\ filePc = <<>>
  /\ completed = 0
  /\ errors = <<>>
  /\ results = <<>>
  /\ batchCalls = <<>>

\* the variables of a single function call when no such call is modelled
FnParked ==
  /\ fnArg = <<>>
  /\ fnRet = <<>>
  /\ fnDone = FALSE

\* lastRegister before any registerPlugin call
NoRegister == [via |-> "none", value |-> [kind |-> "none"], before |-> <<>>,
               after |-> <<>>, raised |-> "none"]

\* the pipeline variables when no MarkdownToPDF instance is in use
PipeParked ==
  /\ lastRegister = NoRegister
  /\ plugins = <<>>
  /\ sanitizeHTML = TRUE
  /\ env = "node"
  /\ entry = "none"
  /\ pc = "parked"
  /\ idx = 0
  /\ markdown = <<>>
  /\ content = <<>>
  /\ trace = <<>>
  /\ pending = "none"
  /\ cbCtx = "none"
  /\ cbArgs = [err |-> NoError, res |-> NullResult]
  /\ cbCalls = <<>>

(***************************************************************************)
(* SpecSan: sanitize on every html string that serializes a DOM forest of  *)
(* at most MaxNodes nodes, then on its own output.                         *)
(***************************************************************************)
MaxNodes == 4
MaxSanitizeCalls == 2

\* elements that may have children: allowed without attributes, allowed
\* with an event handler and a whitelisted attribute, and disallowed
ContainerLabels ==
  { [tag |-> "div",  attrs |-> <<>>],
    [tag |-> "div",  attrs |-> <<Attr("onclick", <<"x">>), Attr("class", <<"c">>)>>],
    [tag |-> "font", attrs |-> <<>>] }

LeafNodes ==
  { TextNode(<<"x">>), CommentNode,
    Element("img", <<Attr("src", <<"/","i">>), Attr("onerror", <<"x">>)>>, <<>>) }

RECURSIVE Trees(_), Forests(_)
Trees(n) ==
  IF n = 1
  THEN LeafNodes \cup { Element(l.tag, l.attrs, <<>>) : l \in ContainerLabels }
  ELSE { Element(l.tag, l.attrs, f) : l \in ContainerLabels, f \in Forests(n - 1) }

Forests(n) ==
  IF n = 0 THEN { <<>> }
  ELSE UNION { { <<t>> \o f : t \in Trees(k), f \in Forests(n - k) } : k \in 1..n }

\* the strings passed to sanitize: the serializations of the forests of at
\* most n nodes
InputHtml(n) == { SerializeNodes(f) : f \in UNION { Forests(k) : k \in 0..n } }

InitSan ==
  /\ PipeParked
  /\ FnParked
  /\ BlocksParked
  /\ BatchParked
  /\ CfgParked
  /\ hasDocument \in BOOLEAN
  /\ sanHtml \in InputHtml(MaxNodes)
  /\ sanTree = <<>>
  /\ sanFirst = <<>>
  /\ sanOut = <<>>
  /\ sanCalls = 0

\* sanitizer.sanitize(html): the first call on the input, every later call
\* on the string the previous call returned
SanitizeCall ==
  /\ sanCalls < MaxSanitizeCalls
  /\ LET html == IF sanCalls = 0 THEN sanHtml ELSE sanOut
     IN /\ sanOut' = Sanitize(html, hasDocument)
        /\ sanTree' = IF html = <<>> THEN <<>> ELSE SanitizedChildNodes(html, hasDocument)
        /\ sanFirst' = IF sanCalls = 0 THEN Sanitize(html, hasDocument) ELSE sanFirst
  /\ sanCalls' = sanCalls + 1
  /\ UNCHANGED <<hasDocument, sanHtml>>
  /\ UNCHANGED <<pipeVars, blockVars, batchVars, cfgVars, fnVars>>

NextSan == SanitizeCall

SpecSan == InitSan /\ [][NextSan]_vars

\* every node of the forest, at any depth, is a text node or an element
\* with a whitelisted tag
RECURSIVE OnlyAllowedNodes(_)
OnlyAllowedNodes(ns) ==
  \A j \in 1..Len(ns) :
    \/ ns[j].type = 3
    \/ /\ ns[j].type = 1
       /\ ns[j].tag \in allowedTags
       /\ OnlyAllowedNodes(ns[j].kids)

\* no element of the forest, at any depth, has an attribute named on...
RECURSIVE NoEventHandlers(_)
NoEventHandlers(ns) ==
  \A j \in 1..Len(ns) :
    ns[j].type = 1 =>
      /\ \A a \in 1..Len(ns[j].attrs) :
           ~StartsWith(AttrNameChars(ns[j].attrs[a].name), <<"o","n">>)
      /\ NoEventHandlers(ns[j].kids)

\* C1: with a DOM, after sanitize every node of the output tree, at any
\* depth, is a text node or an element whose tag is in allowedTags.
C1_OnlyAllowedNodesSurvive ==
  (hasDocument /\ sanCalls = 1) => OnlyAllowedNodes(ParseHTML(sanOut))

\* C2: with a DOM, after sanitize no element of the output tree carries an
\* attribute whose name begins with "on".
C2_NoEventHandlerSurvives ==
  (hasDocument /\ sanCalls = 1) => NoEventHandlers(ParseHTML(sanOut))

\* C3: sanitize is idempotent: sanitizing the string a first sanitize call
\* returned gives that same string.
C3_SanitizeIdempotent ==
  sanCalls = 2 => sanOut = sanFirst

(***************************************************************************)
(* Spec: one MarkdownToPDF instance; plugins are registered, then one      *)
(* conversion runs, one step of the source per action.                     *)
(***************************************************************************)
MaxPlugins == 2

\* the sanitizer variables while the pipeline specification runs
SanParked ==
  /\ sanHtml = <<>>
  /\ sanTree = <<>>
  /\ sanFirst = <<>>
  /\ sanOut = <<>>
  /\ sanCalls = 0

Stages == {"preprocess", "postprocess"}

\* values passed to registerPlugin: plugin objects with a process function
\* (with each stage, throwing or not), null, and an object whose process
\* is not a function
PluginValues ==
  { Plugin("custom", st, th) : st \in Stages \cup {""}, th \in BOOLEAN }
    \cup { [kind |-> k, name |-> "", stage |-> "", throws |-> FALSE] : k \in {"null", "noprocess"} }

\* markdown arguments: a non-empty string, and the empty string
Markdowns == { <<Mark("markdown", 0)>>, <<>> }

\* new MarkdownToPDF(userConfig)
Init ==
  /\ SanParked
  /\ FnParked
  /\ lastRegister = NoRegister
  /\ BlocksParked
  /\ BatchParked
  /\ CfgParked
  /\ env \in {"browser", "node", "none"}
  /\ hasDocument = (env = "browser")
  /\ sanitizeHTML \in BOOLEAN
  /\ plugins = BuiltInPlugins
  /\ entry = "none"
  /\ pc = "idle"
  /\ idx = 0
  /\ markdown = <<>>
  /\ content = <<>>
  /\ trace = <<>>
  /\ pending = "none"
  /\ cbCtx = "none"
  /\ cbArgs = [err |-> NoError, res |-> NullResult]
  /\ cbCalls = <<>>

\* the condition of registerPlugin: plugin && typeof plugin.process === 'function'
HasProcess(plugin) == plugin.kind = "plugin"

\* MarkdownParser.prototype.registerPlugin
RegisterPlugin(plugin) ==
  /\ pc = "idle"
  /\ Len(plugins) < Len(BuiltInPlugins) + MaxPlugins
  /\ plugins' = IF HasProcess(plugin) THEN Append(plugins, plugin) ELSE plugins
  /\ lastRegister' = [via |-> "MarkdownParser", value |-> plugin, before |-> plugins,
                      after |-> plugins', raised |-> "none"]
  /\ UNCHANGED <<sanitizeHTML, env, entry, pc, idx, markdown, content, trace,
                 pending, cbCtx, cbArgs, cbCalls>>
  /\ UNCHANGED <<sanVars, blockVars, batchVars, cfgVars, fnVars>>

\* the evaluation of plugin.name in MarkdownToPDF.prototype.registerPlugin:
\* a property read of null or undefined raises a TypeError
ReadName(plugin) == IF plugin.kind = "null" THEN "TypeError" ELSE "none"

\* MarkdownToPDF.prototype.registerPlugin: this.parser.registerPlugin(plugin),
\* then this.logger.info('Custom plugin registered: ' + (plugin.name || 'unnamed'))
MarkdownToPDFRegisterPlugin(plugin) ==
  /\ pc = "idle"
  /\ Len(plugins) < Len(BuiltInPlugins) + MaxPlugins
  /\ plugins' = IF HasProcess(plugin) THEN Append(plugins, plugin) ELSE plugins
  /\ lastRegister' = [via |-> "MarkdownToPDF", value |-> plugin, before |-> plugins,
                      after |-> plugins', raised |-> ReadName(plugin)]
  /\ UNCHANGED <<sanitizeHTML, env, entry, pc, idx, markdown, content, trace,
                 pending, cbCtx, cbArgs, cbCalls>>
  /\ UNCHANGED <<sanVars, blockVars, batchVars, cfgVars, fnVars>>

\* MarkdownToPDF.prototype.convert: entry into the try block
Convert(md) ==
  /\ pc = "idle"
  /\ entry' = "convert"
  /\ markdown' = md
  /\ pc' = "parse"
  /\ UNCHANGED <<plugins, sanitizeHTML, env, idx, content, trace, pending,
                 cbCtx, cbArgs, cbCalls>>
  /\ UNCHANGED <<lastRegister, sanVars, blockVars, batchVars, cfgVars, fnVars>>

\* PDFGenerator.prototype.generateFromMarkdown: entry into the try block
GenerateFromMarkdown(md) ==
  /\ pc = "idle"
  /\ entry' = "generateFromMarkdown"
  /\ markdown' = md
  /\ pc' = "parse"
  /\ UNCHANGED <<plugins, sanitizeHTML, env, idx, content, trace, pending,
                 cbCtx, cbArgs, cbCalls>>
  /\ UNCHANGED <<lastRegister, sanVars, blockVars, batchVars, cfgVars, fnVars>>

\* where the entry point continues when parser.parse returns
AfterParse == IF entry = "convert" THEN "sanitize" ELSE "render"

\* the catch block an exception thrown inside parser.parse reaches
ParseCatch == IF entry = "convert" THEN "conv_catch" ELSE "gfm_catch"

\* MarkdownParser.prototype.parse: the guard and var html = markdown
ParseEnter ==
  /\ pc = "parse"
  /\ IF markdown = <<>>
     THEN /\ content' = <<>>
          /\ pc' = AfterParse
          /\ trace' = trace \o << Event("call", "parse", 0, markdown),
                                  Event("return", "parse", 0, <<>>) >>
     ELSE /\ content' = markdown
          /\ pc' = "preprocess"
          /\ trace' = Append(trace, Event("call", "parse", 0, markdown))
  /\ UNCHANGED <<plugins, sanitizeHTML, env, entry, idx, markdown, pending,
                 cbCtx, cbArgs, cbCalls>>
  /\ UNCHANGED <<lastRegister, sanVars, blockVars, batchVars, cfgVars, fnVars>>

\* MarkdownParser.prototype._applyPlugins: the call, var result = content
ApplyPluginsCall ==
  /\ pc \in Stages
  /\ idx = 0
  /\ idx' = 1
  /\ trace' = Append(trace, Event("call", pc, 0, content))
  /\ UNCHANGED <<plugins, sanitizeHTML, env, entry, pc, markdown, content,
                 pending, cbCtx, cbArgs, cbCalls>>
  /\ UNCHANGED <<lastRegister, sanVars, blockVars, batchVars, cfgVars, fnVars>>

\* _applyPlugins without the stage filter: every plugin runs at every stage
PluginMatchesAnyStage(plugin, stage) == plugin.stage \in Stages \cup {""}

\* the condition of _applyPlugins on plugins[i]
PluginMatches(plugin, stage) == plugin.stage = stage \/ plugin.stage = ""

\* plugin.process(result, this.config) of the plugin registered at index i
PluginProcess(i, result) == Append(result, Mark("plugin", i))

\* _applyPlugins with the exception of a plugin swallowed: the loop goes on
\* with the next plugin
ApplyPluginsStepSwallowing ==
  /\ pc \in Stages
  /\ idx \in 1..Len(plugins)
  /\ IF PluginMatches(plugins[idx], pc)
     THEN IF plugins[idx].throws
          THEN /\ trace' = trace \o << Event("call", pc, idx, content),
                                       Event("throw", pc, idx, <<>>) >>
               /\ UNCHANGED content
          ELSE /\ content' = PluginProcess(idx, content)
               /\ trace' = trace \o << Event("call", pc, idx, content),
                                       Event("return", pc, idx, PluginProcess(idx, content)) >>
     ELSE UNCHANGED <<content, trace>>
  /\ idx' = idx + 1
  /\ UNCHANGED <<plugins, sanitizeHTML, env, entry, pc, markdown, pending,
                 cbCtx, cbArgs, cbCalls>>
  /\ UNCHANGED <<lastRegister, sanVars, blockVars, batchVars, cfgVars, fnVars>>

\* MarkdownParser.prototype._applyPlugins: one iteration of the for loop
ApplyPluginsStep ==
  /\ pc \in Stages
  /\ idx \in 1..Len(plugins)
  /\ IF PluginMatches(plugins[idx], pc)
     THEN IF plugins[idx].throws
          THEN /\ trace' = trace \o << Event("call", pc, idx, content),
                                       Event("throw", pc, idx, <<>>) >>
               /\ pc' = "callback"
               /\ cbCtx' = ParseCatch
               /\ cbArgs' = [err |-> PluginError(idx), res |-> NullResult]
               /\ UNCHANGED <<idx, content>>
          ELSE /\ content' = PluginProcess(idx, content)
               /\ trace' = trace \o << Event("call", pc, idx, content),
                                       Event("return", pc, idx, PluginProcess(idx, content)) >>
               /\ idx' = idx + 1
               /\ UNCHANGED <<pc, cbCtx, cbArgs>>
     ELSE /\ idx' = idx + 1
          /\ UNCHANGED <<pc, content, trace, cbCtx, cbArgs>>
  /\ UNCHANGED <<plugins, sanitizeHTML, env, entry, markdown, pending, cbCalls>>
  /\ UNCHANGED <<lastRegister, sanVars, blockVars, batchVars, cfgVars, fnVars>>

\* MarkdownParser.prototype._applyPlugins: return result; after the
\* postprocess stage parse returns it in turn
ApplyPluginsReturn ==
  /\ pc \in Stages
  /\ idx = Len(plugins) + 1
  /\ idx' = 0
  /\ IF pc = "preprocess"
     THEN /\ pc' = "blocks"
          /\ trace' = Append(trace, Event("return", pc, 0, content))
     ELSE /\ pc' = AfterParse
          /\ trace' = trace \o << Event("return", pc, 0, content),
                                  Event("return", "parse", 0, content) >>
  /\ UNCHANGED <<plugins, sanitizeHTML, env, entry, markdown, content, pending,
                 cbCtx, cbArgs, cbCalls>>
  /\ UNCHANGED <<lastRegister, sanVars, blockVars, batchVars, cfgVars, fnVars>>

\* this._parseBlocks(html), as a transformation of the content
ParseBlocksOf(html) == Append(html, Mark("blocks", 0))

\* this._parseInline(html), as a transformation of the content
ParseInlineOf(html) == Append(html, Mark("inline", 0))

\* parse with block parsing applied to the markdown argument instead of
\* the output of the preprocess plugins
ParseBlocksStepOnMarkdown ==
  /\ pc = "blocks"
  /\ content' = ParseBlocksOf(markdown)
  /\ trace' = trace \o << Event("call", "blocks", 0, markdown),
                          Event("return", "blocks", 0, ParseBlocksOf(markdown)) >>
  /\ pc' = "inline"
  /\ UNCHANGED <<plugins, sanitizeHTML, env, entry, idx, markdown, pending,
                 cbCtx, cbArgs, cbCalls>>
  /\ UNCHANGED <<lastRegister, sanVars, blockVars, batchVars, cfgVars, fnVars>>

\* MarkdownParser.prototype.parse: html = this._parseBlocks(html)
ParseBlocksStep ==
  /\ pc = "blocks"
  /\ content' = ParseBlocksOf(content)
  /\ trace' = trace \o << Event("call", "blocks", 0, content),
                          Event("return", "blocks", 0, ParseBlocksOf(content)) >>
  /\ pc' = "inline"
  /\ UNCHANGED <<plugins, sanitizeHTML, env, entry, idx, markdown, pending,
                 cbCtx, cbArgs, cbCalls>>
  /\ UNCHANGED <<lastRegister, sanVars, blockVars, batchVars, cfgVars, fnVars>>

\* MarkdownParser.prototype.parse: html = this._parseInline(html)
ParseInlineStep ==
  /\ pc = "inline"
  /\ content' = ParseInlineOf(content)
  /\ trace' = trace \o << Event("call", "inline", 0, content),
                          Event("return", "inline", 0, ParseInlineOf(content)) >>
  /\ pc' = "postprocess"
  /\ UNCHANGED <<plugins, sanitizeHTML, env, entry, idx, markdown, pending,
                 cbCtx, cbArgs, cbCalls>>
  /\ UNCHANGED <<lastRegister, sanVars, blockVars, batchVars, cfgVars, fnVars>>

\* this.sanitizer.sanitize(html), as a transformation of the content
SanitizeOf(html) == Append(html, Mark("sanitize", 0))

\* this.renderer.render(html), as a transformation of the content
RenderOf(html) == Append(html, Mark("render", 0))

\* this.renderer.injectCSS(document, css), as a transformation of the content
InjectCSSOf(document) == Append(document, Mark("css", 0))

\* MarkdownToPDF.prototype.convert: if (this.config.sanitizeHTML) html = sanitize(html)
SanitizeStep ==
  /\ pc = "sanitize"
  /\ IF sanitizeHTML
     THEN /\ content' = SanitizeOf(content)
          /\ trace' = trace \o << Event("call", "sanitize", 0, content),
                                  Event("return", "sanitize", 0, SanitizeOf(content)) >>
     ELSE UNCHANGED <<content, trace>>
  /\ pc' = "render"
  /\ UNCHANGED <<plugins, sanitizeHTML, env, entry, idx, markdown, pending,
                 cbCtx, cbArgs, cbCalls>>
  /\ UNCHANGED <<lastRegister, sanVars, blockVars, batchVars, cfgVars, fnVars>>

\* var document = this.renderer.render(html), in convert and in generateFromMarkdown
RenderStep ==
  /\ pc = "render"
  /\ content' = RenderOf(content)
  /\ trace' = trace \o << Event("call", "render", 0, content),
                          Event("return", "render", 0, RenderOf(content)) >>
  /\ pc' = IF entry = "convert" THEN "css" ELSE "generate"
  /\ UNCHANGED <<plugins, sanitizeHTML, env, entry, idx, markdown, pending,
                 cbCtx, cbArgs, cbCalls>>
  /\ UNCHANGED <<lastRegister, sanVars, blockVars, batchVars, cfgVars, fnVars>>

\* MarkdownToPDF.prototype.convert: document = this.renderer.injectCSS(document, css)
InjectCSSStep ==
  /\ pc = "css"
  /\ content' = InjectCSSOf(content)
  /\ trace' = trace \o << Event("call", "css", 0, content),
                          Event("return", "css", 0, InjectCSSOf(content)) >>
  /\ pc' = "generate"
  /\ UNCHANGED <<plugins, sanitizeHTML, env, entry, idx, markdown, pending,
                 cbCtx, cbArgs, cbCalls>>
  /\ UNCHANGED <<lastRegister, sanVars, blockVars, batchVars, cfgVars, fnVars>>

\* the try block a synchronous callback invocation of _generatePDF runs in:
\* convert reaches it through generateFromHTML, generateFromMarkdown directly
GenerateTry == IF entry = "convert" THEN "gen_try" ELSE "gfm_try"

\* the catch block that handles an exception thrown in context ctx, and
\* "none" when no try block encloses it
CatchOf(ctx) ==
  CASE ctx = "gen_try"   -> "gen_catch"
    [] ctx = "gen_catch" -> "conv_catch"
    [] ctx = "gfm_try"   -> "gfm_catch"
    [] OTHER             -> "none"

\* PDFGenerator.prototype._generatePDF, called by generateFromHTML (convert)
\* or by generateFromMarkdown: _generateNodePDF calls back at once,
\* _generateBrowserPDF sets up the iframe (a DOM call may throw) and returns
GeneratePDF ==
  /\ pc = "generate"
  /\ trace' = Append(trace, Event("call", "generate", 0, content))
  /\ \/ /\ env = "node"
        /\ pc' = "callback"
        /\ cbCtx' = GenerateTry
        /\ cbArgs' = [err |-> NoError, res |-> NodeResult(content)]
        /\ UNCHANGED pending
     \/ /\ env = "none"
        /\ pc' = "callback"
        /\ cbCtx' = GenerateTry
        /\ cbArgs' = [err |-> EnvError, res |-> NullResult]
        /\ UNCHANGED pending
     \/ /\ env = "browser"
        /\ pc' = "callback"
        /\ cbCtx' = CatchOf(GenerateTry)
        /\ cbArgs' = [err |-> DomError, res |-> NullResult]
        /\ UNCHANGED pending
     \/ /\ env = "browser"
        /\ pc' = "returned"
        /\ pending' = "onload"
        /\ UNCHANGED <<cbCtx, cbArgs>>
  /\ UNCHANGED <<plugins, sanitizeHTML, env, entry, idx, markdown, content, cbCalls>>
  /\ UNCHANGED <<lastRegister, sanVars, blockVars, batchVars, cfgVars, fnVars>>

\* PDFGenerator.prototype._generateBrowserPDF: iframe.onload
IframeOnload ==
  /\ pc = "returned"
  /\ pending = "onload"
  /\ \/ /\ pending' = "timer"
        /\ UNCHANGED <<pc, cbCtx, cbArgs>>
     \/ /\ pending' = "none"
        /\ pc' = "callback"
        /\ cbCtx' = "async"
        /\ cbArgs' = [err |-> DomError, res |-> NullResult]
  /\ UNCHANGED <<plugins, sanitizeHTML, env, entry, idx, markdown, content,
                 trace, cbCalls>>
  /\ UNCHANGED <<lastRegister, sanVars, blockVars, batchVars, cfgVars, fnVars>>

\* PDFGenerator.prototype._generateBrowserPDF: the setTimeout function
TimerFire ==
  /\ pc = "returned"
  /\ pending = "timer"
  /\ pending' = "none"
  /\ pc' = "callback"
  /\ cbCtx' = "async"
  /\ cbArgs' = [err |-> NoError, res |-> PrintResult]
  /\ UNCHANGED <<plugins, sanitizeHTML, env, entry, idx, markdown, content,
                 trace, cbCalls>>
  /\ UNCHANGED <<lastRegister, sanVars, blockVars, batchVars, cfgVars, fnVars>>

\* callback(error, result) of the caller, which returns or throws.  An
\* exception goes to the enclosing catch block, which calls back again:
\* generateFromHTML's catch, then convert's catch; generateFromMarkdown's
\* catch; outside every try block it is uncaught.
InvokeCallback ==
  /\ pc = "callback"
  /\ cbCalls' = Append(cbCalls, cbArgs)
  /\ \/ /\ pc' = "done"
        /\ UNCHANGED <<cbCtx, cbArgs>>
     \/ /\ CatchOf(cbCtx) # "none"
        /\ pc' = "callback"
        /\ cbCtx' = CatchOf(cbCtx)
        /\ cbArgs' = [err |-> CallbackError(Len(cbCalls) + 1), res |-> NullResult]
     \/ /\ CatchOf(cbCtx) = "none"
        /\ pc' = "uncaught"
        /\ UNCHANGED <<cbCtx, cbArgs>>
  /\ UNCHANGED <<plugins, sanitizeHTML, env, entry, idx, markdown, content,
                 trace, pending>>
  /\ UNCHANGED <<lastRegister, sanVars, blockVars, batchVars, cfgVars, fnVars>>

Next ==
  \/ \E plugin \in PluginValues : RegisterPlugin(plugin)
  \/ \E plugin \in PluginValues : MarkdownToPDFRegisterPlugin(plugin)
  \/ \E md \in Markdowns : Convert(md)
  \/ \E md \in Markdowns : GenerateFromMarkdown(md)
  \/ ParseEnter
  \/ ApplyPluginsCall
  \/ ApplyPluginsStep
  \/ ApplyPluginsReturn
  \/ ParseBlocksStep
  \/ ParseInlineStep
  \/ SanitizeStep
  \/ RenderStep
  \/ InjectCSSStep
  \/ GeneratePDF
  \/ IframeOnload
  \/ TimerFire
  \/ InvokeCallback

Spec == Init /\ [][Next]_vars

(***************************************************************************)
(* Properties of the pipeline                                              *)
(***************************************************************************)
FinalPc == {"done", "uncaught"}

StageOrder == <<"preprocess", "blocks", "inline", "postprocess">>

\* the calls and returns of the four stages of parse, in the order they happened
StageEvents ==
  SelectSeq(trace, LAMBDA e : e.who = 0 /\ e.stage \in {"preprocess", "blocks", "inline", "postprocess"})

\* the positions of the trace that satisfy Test
Positions(Test(_)) == { k \in 1..Len(trace) : Test(trace[k]) }

ParseReturned == Positions(LAMBDA e : e.stage = "parse" /\ e.ev = "return") # {}

\* C4: within one parse call the stages run in the order preprocess
\* plugins, block parsing, inline parsing, postprocess plugins; each is
\* called only after the previous one returned, with exactly the value the
\* previous one returned (the first with the markdown), and parse returns
\* what the last one returned.
C4_StagesInOrder ==
  /\ Len(StageEvents) <= 8
  /\ \A k \in 1..Len(StageEvents) :
       /\ StageEvents[k].stage = StageOrder[(k + 1) \div 2]
       /\ StageEvents[k].ev = (IF k % 2 = 1 THEN "call" ELSE "return")
       /\ (k = 1 => StageEvents[k].val = markdown)
       /\ (k % 2 = 1 /\ k > 1 => StageEvents[k].val = StageEvents[k - 1].val)
  /\ (ParseReturned /\ markdown # <<>>) =>
       /\ Len(StageEvents) = 8
       /\ \A k \in 1..Len(trace) :
            (trace[k].stage = "parse" /\ trace[k].ev = "return")
              => trace[k].val = StageEvents[8].val

\* a parse call went through all four stages and a preprocess plugin
\* changed the content before block parsing
C4_Witness ==
  /\ pc = "done"
  /\ Len(StageEvents) = 8
  /\ StageEvents[2].val # StageEvents[1].val
  /\ StageEvents[8].val # StageEvents[7].val

\* C5: plugins are invoked in registration order and the content is
\* threaded through them: every invocation receives the value returned by
\* the plugin invoked just before it in that stage (the stage's input for
\* the first), that plugin was registered earlier, and a plugin registered
\* with stage postprocess is invoked only in the postprocess stage, after
\* block and inline parsing have returned.
C5_PluginsInOrderThreaded ==
  \A k \in 1..Len(trace) :
    (trace[k].ev = "call" /\ trace[k].who > 0) =>
      /\ k > 1
      /\ trace[k - 1].stage = trace[k].stage
      /\ trace[k - 1].ev = (IF trace[k - 1].who = 0 THEN "call" ELSE "return")
      /\ trace[k - 1].who < trace[k].who
      /\ trace[k - 1].val = trace[k].val
      /\ \A j \in 1..(k - 1) :
           (trace[j].stage = trace[k].stage /\ trace[j].who > 0) => trace[j].who < trace[k].who
      /\ plugins[trace[k].who].stage = "postprocess" =>
           /\ trace[k].stage = "postprocess"
           /\ \E j \in 1..(k - 1) : trace[j].stage = "blocks" /\ trace[j].ev = "return"
           /\ \E j \in 1..(k - 1) : trace[j].stage = "inline" /\ trace[j].ev = "return"

\* two postprocess plugins P1, P2 registered by the caller have both run
C5_Witness ==
  /\ pc = "done"
  /\ Len(plugins) = Len(BuiltInPlugins) + 2
  /\ \A i \in (Len(BuiltInPlugins) + 1)..Len(plugins) :
       /\ plugins[i].stage = "postprocess"
       /\ Positions(LAMBDA e : e.ev = "return" /\ e.who = i) # {}

\* C6: a plugin whose stage is unset is invoked only in the postprocess
\* stage, never in the preprocess stage, and exactly once in a parse call
\* that returns.
C6_UnsetStageIsPostprocessOnly ==
  \A i \in 1..Len(plugins) :
    plugins[i].stage = "" =>
      /\ Positions(LAMBDA e : e.ev = "call" /\ e.who = i /\ e.stage = "preprocess") = {}
      /\ (ParseReturned /\ markdown # <<>>) =>
           Cardinality(Positions(LAMBDA e : e.ev = "call" /\ e.who = i)) = 1

\* C7: with sanitizeHTML enabled, a conversion that renders its HTML has
\* invoked sanitize exactly once, after parse (its postprocess plugins)
\* returned and before the call of render.
C7_SanitizedOnceBeforeRender ==
  \A r \in Positions(LAMBDA e : e.stage = "render" /\ e.ev = "call") :
    (sanitizeHTML /\ markdown # <<>>) =>
      /\ Cardinality(Positions(LAMBDA e : e.stage = "sanitize" /\ e.ev = "call")) = 1
      /\ \A k \in Positions(LAMBDA e : e.stage = "sanitize" /\ e.ev = "call") :
           /\ k < r
           /\ \E j \in 1..(k - 1) : trace[j].stage = "parse" /\ trace[j].ev = "return"

\* C9: the callback of a convert call is never invoked twice, and has been
\* invoked exactly once when the call is over, whether it returns or throws.
C9_CallbackExactlyOnce ==
  entry = "convert" =>
    /\ Len(cbCalls) <= 1
    /\ pc \in FinalPc => Len(cbCalls) = 1

\* C11: registering an invalid plugin (null or undefined, or an object
\* whose process is not a function) through MarkdownParser.registerPlugin
\* or MarkdownToPDF.registerPlugin raises no error and leaves the ordered
\* plugin list unchanged.
C11_InvalidRegistrationIgnored ==
  (lastRegister.via # "none" /\ ~HasProcess(lastRegister.value)) =>
    /\ lastRegister.raised = "none"
    /\ lastRegister.after = lastRegister.before

\* C10: when a plugin's process throws, nothing of the pipeline runs after
\* it (no later plugin, stage, sanitize, render or generation step), and
\* the callback receives that error with a null result, once.
C10_PluginThrowStopsPipeline ==
  \A k \in 1..Len(trace) :
    trace[k].ev = "throw" =>
      /\ k = Len(trace)
      /\ pending = "none"
      /\ \/ /\ pc = "callback"
            /\ cbCalls = <<>>
            /\ cbArgs = [err |-> PluginError(trace[k].who), res |-> NullResult]
         \/ /\ pc \in FinalPc
            /\ cbCalls = << [err |-> PluginError(trace[k].who), res |-> NullResult] >>

\* a convert call ended after a plugin registered by the caller threw in
\* the preprocess stage, with plugins registered after it
C10_Witness ==
  /\ pc = "done"
  /\ entry = "convert"
  /\ \E k \in 1..Len(trace) :
       /\ trace[k].ev = "throw"
       /\ trace[k].stage = "preprocess"
       /\ trace[k].who < Len(plugins)

(***************************************************************************)
(* MarkdownParser._parseBlocks.  A line is a sequence of characters; "CR"  *)
(* stands for the carriage return a line keeps when the text has CRLF      *)
(* line ends (the text is split at the newline only) and "BT" for the      *)
(* backtick.                                                               *)
(***************************************************************************)
\* the characters of the model that the regular expression class \s matches
IsWhitespace(c) == c \in {" ", "CR"}

\* the characters that . does not match and that $ does not skip
IsLineTerminator(c) == c = "CR"

IsDigit(c) == c \in {"0", "1", "2", "3", "4", "5", "6", "7", "8", "9"}

\* index of the first character at or after k that is not whitespace
RECURSIVE SkipWhitespace(_, _)
SkipWhitespace(line, k) ==
  IF k <= Len(line) /\ IsWhitespace(line[k]) THEN SkipWhitespace(line, k + 1) ELSE k

\* index of the last character at or before k that is not whitespace
RECURSIVE SkipWhitespaceBack(_, _)
SkipWhitespaceBack(line, k) ==
  IF k >= 1 /\ IsWhitespace(line[k]) THEN SkipWhitespaceBack(line, k - 1) ELSE k

\* String.prototype.trim
Trim(line) == SubSeq(line, SkipWhitespace(line, 1), SkipWhitespaceBack(line, Len(line)))

\* index of the first character at or after k that is not a digit
RECURSIVE SkipDigits(_, _)
SkipDigits(line, k) ==
  IF k <= Len(line) /\ IsDigit(line[k]) THEN SkipDigits(line, k + 1) ELSE k

\* \s+(.+)$ matches line from index k: some whitespace, then at least one
\* character up to the end of the line, none of them a line terminator
MatchesSpaceThenText(line, k) ==
  \E m \in 1..Len(line) :
    /\ k + m <= Len(line)
    /\ \A j \in k..(k + m - 1) : IsWhitespace(line[j])
    /\ \A j \in (k + m)..Len(line) : ~IsLineTerminator(line[j])

\* line.trim().indexOf(fence) === 0, fence being three backticks
IsFenceStart(line) == StartsWith(Trim(line), <<"BT", "BT", "BT">>)

\* line.match(/^#{1,6}\s/)
IsHeadingStart(line) ==
  \E n \in 1..6 :
    /\ Len(line) >= n + 1
    /\ \A j \in 1..n : line[j] = "#"
    /\ IsWhitespace(line[n + 1])

\* _parseHeading: line.match(/^(#{1,6})\s+(.+)$/)
MatchesHeading(line) ==
  \E n \in 1..6 :
    /\ Len(line) >= n + 1
    /\ \A j \in 1..n : line[j] = "#"
    /\ MatchesSpaceThenText(line, n + 1)

\* line.match(/^(\*{3,}|-{3,}|_{3,})$/)
IsRule(line) ==
  /\ Len(line) >= 3
  /\ \E c \in {"*", "-", "_"} : \A j \in 1..Len(line) : line[j] = c

\* line.trim().indexOf('>') === 0
IsBlockquoteLine(line) == StartsWith(Trim(line), <<">">>)

\* line.match(/^[\s]*[-*+]\s/)
IsUnorderedStart(line) ==
  LET k == SkipWhitespace(line, 1)
  IN /\ k + 1 <= Len(line)
     /\ line[k] \in {"-", "*", "+"}
     /\ IsWhitespace(line[k + 1])

\* line.match(/^[\s]*\d+\.\s/)
IsOrderedStart(line) ==
  LET k == SkipWhitespace(line, 1)
      d == SkipDigits(line, k)
  IN /\ d > k
     /\ d + 1 <= Len(line)
     /\ line[d] = "."
     /\ IsWhitespace(line[d + 1])

\* _parseList: lines[i].match(pattern), pattern /^[\s]*[-*+]\s+(.+)$/ for
\* 'ul' and /^[\s]*\d+\.\s+(.+)$/ for 'ol'
MatchesListItem(line, type) ==
  LET k == SkipWhitespace(line, 1)
      d == SkipDigits(line, k)
  IN IF type = "ul"
     THEN /\ k <= Len(line)
          /\ line[k] \in {"-", "*", "+"}
          /\ MatchesSpaceThenText(line, k + 1)
     ELSE /\ d > k
          /\ d <= Len(line)
          /\ line[d] = "."
          /\ MatchesSpaceThenText(line, d + 1)

\* _isTableRow: line.indexOf('|') !== -1
IsTableRow(line) == \E j \in 1..Len(line) : line[j] = "|"

\* [\s]*:?-+:?[\s]* from index k: the index after the cell, 0 when no match
RECURSIVE SkipHyphens(_, _)
SkipHyphens(s, k) == IF k <= Len(s) /\ s[k] = "-" THEN SkipHyphens(s, k + 1) ELSE k

DelimiterCellEnd(s, k) ==
  LET a == SkipWhitespace(s, k)
      b == IF a <= Len(s) /\ s[a] = ":" THEN a + 1 ELSE a
      c == SkipHyphens(s, b)
      d == IF c <= Len(s) /\ s[c] = ":" THEN c + 1 ELSE c
  IN IF c > b THEN SkipWhitespace(s, d) ELSE 0

\* (\|[\s]*:?-+:?[\s]*)+\|?$ from index k, n cells of the group matched so far
RECURSIVE MatchesDelimiterRest(_, _, _)
MatchesDelimiterRest(s, k, n) ==
  IF k > Len(s) THEN n >= 1
  ELSE IF s[k] # "|" THEN FALSE
  ELSE IF DelimiterCellEnd(s, k + 1) # 0
       THEN MatchesDelimiterRest(s, DelimiterCellEnd(s, k + 1), n + 1)
       ELSE k = Len(s) /\ n >= 1

\* _isTableDelimiter: /^\|?[\s]*:?-+:?[\s]*(\|[\s]*:?-+:?[\s]*)+\|?$/.test(line.trim())
IsTableDelimiter(line) ==
  LET s  == Trim(line)
      k0 == IF Len(s) >= 1 /\ s[1] = "|" THEN 2 ELSE 1
  IN /\ DelimiterCellEnd(s, k0) # 0
     /\ MatchesDelimiterRest(s, DelimiterCellEnd(s, k0), 0)

\* lines[i] for the 0-based index i of the source
LineAt(i) == lines[i + 1]

\* the branch of the while loop of _parseBlocks taken at index i
Detector(i) ==
  LET line == LineAt(i)
  IN IF IsFenceStart(line) THEN "fence"
     ELSE IF IsHeadingStart(line) THEN "heading"
     ELSE IF IsRule(line) THEN "rule"
     ELSE IF IsBlockquoteLine(line) THEN "blockquote"
     ELSE IF IsUnorderedStart(line) THEN "ul"
     ELSE IF IsOrderedStart(line) THEN "ol"
     ELSE IF IsTableRow(line) /\ i + 1 < Len(lines) /\ IsTableDelimiter(LineAt(i + 1))
          THEN "table"
     ELSE "paragraph"

\* a loop that stops at every line that begins with the fence marker
RECURSIVE CodeBlockEndAtAnyFence(_)
CodeBlockEndAtAnyFence(j) ==
  IF j < Len(lines) /\ ~StartsWith(Trim(LineAt(j)), <<"BT", "BT", "BT">>)
  THEN CodeBlockEndAtAnyFence(j + 1) ELSE j

\* _parseCodeBlock: the index i at which its while loop stops, started at j
RECURSIVE CodeBlockEnd(_)
CodeBlockEnd(j) ==
  IF j < Len(lines) /\ Trim(LineAt(j)) # <<"BT", "BT", "BT">> THEN CodeBlockEnd(j + 1) ELSE j

\* _parseBlockquote: the index i at which its while loop stops, started at j
RECURSIVE BlockquoteEnd(_)
BlockquoteEnd(j) ==
  IF j < Len(lines) /\ IsBlockquoteLine(LineAt(j)) THEN BlockquoteEnd(j + 1) ELSE j

\* _parseList: the index i at which its while loop stops, started at j
RECURSIVE ListEnd(_, _)
ListEnd(j, type) ==
  IF j < Len(lines) /\ MatchesListItem(LineAt(j), type) THEN ListEnd(j + 1, type) ELSE j

\* a loop that takes no body row
TableEndWithoutRows(j) == j

\* _parseTable: the index i at which its while loop stops, started at j
RECURSIVE TableEnd(_)
TableEnd(j) ==
  IF j < Len(lines) /\ IsTableRow(LineAt(j)) THEN TableEnd(j + 1) ELSE j

\* an entry of the array html: the kind of block, the index of the line the
\* detector fired at and the index the scan continues at; no block for a
\* blank line
Block(kind, from, next) == [kind |-> kind, from |-> from, next |-> next]

(***************************************************************************)
(* SpecBlocks: _parseBlocks on every text of at most MaxLines lines drawn  *)
(* from LineSet, one iteration of the while loop per step.                 *)
(***************************************************************************)
MaxLines == 3
MaxRepeats == 2

\* one line of each shape the detectors tell apart
LineSet ==
  { <<>>,                            \* blank
    <<"a">>,                         \* text
    <<"#", " ", "a">>,               \* heading
    <<"#", " ">>,                    \* heading marker without text
    <<"-", "-", "-">>,               \* rule
    <<">", "a">>,                    \* blockquote
    <<"-", " ", "a">>,               \* unordered list item
    <<"-", " ">>,                    \* unordered list marker without text
    <<"-", " ", "a", "CR">>,         \* unordered list item of a CRLF text
    <<"1", ".", " ", "a">>,          \* ordered list item
    <<"BT", "BT", "BT">>,            \* fence
    <<"BT", "BT", "BT", "j">>,       \* fence with a language
    <<"a", "|", "b">>,               \* table row
    <<"|", "<", "|", "|", "&">>,     \* table row with an empty cell
    <<"|", "-", "|", "-", "|">> }    \* table delimiter

Texts == UNION { [1..n -> LineSet] : n \in 1..MaxLines }

InitBlocks ==
  /\ SanParked
  /\ FnParked
  /\ hasDocument = FALSE
  /\ PipeParked
  /\ BatchParked
  /\ CfgParked
  /\ lines \in Texts
  /\ scanIndex = 0
  /\ htmlBlocks = <<>>
  /\ scans = <<>>
  /\ blocksPc = "scan"

\* the while condition of _parseBlocks holds; the loop is followed for at
\* most MaxRepeats blocks more than there are lines
InLoop ==
  /\ blocksPc = "scan"
  /\ scanIndex < Len(lines)
  /\ Len(htmlBlocks) < Len(lines) + MaxRepeats

\* an iteration that puts block b in front of the array instead of pushing it
IterationUnshift(b, next) ==
  /\ htmlBlocks' = b \o htmlBlocks
  /\ scanIndex' = next
  /\ scans' = Append(scans, scanIndex)
  /\ UNCHANGED <<lines, blocksPc>>
  /\ UNCHANGED <<sanVars, pipeVars, fnVars, batchVars, cfgVars>>

\* one iteration of the loop that pushes block b and continues at index next
Iteration(b, next) ==
  /\ htmlBlocks' = htmlBlocks \o b
  /\ scanIndex' = next
  /\ scans' = Append(scans, scanIndex)
  /\ UNCHANGED <<lines, blocksPc>>
  /\ UNCHANGED <<sanVars, pipeVars, fnVars, batchVars, cfgVars>>

\* _parseBlocks, code block branch: _parseCodeBlock(lines, i)
FencedCode ==
  /\ InLoop
  /\ Detector(scanIndex) = "fence"
  /\ LET next == CodeBlockEnd(scanIndex + 1) + 1
     IN Iteration(<<Block("code", scanIndex, next)>>, next)

\* _parseBlocks, heading branch: _parseHeading(line), which returns the line
\* itself when its own pattern does not match
Heading ==
  /\ InLoop
  /\ Detector(scanIndex) = "heading"
  /\ Iteration(<<Block(IF MatchesHeading(LineAt(scanIndex)) THEN "heading" ELSE "raw",
                       scanIndex, scanIndex + 1)>>, scanIndex + 1)

\* _parseBlocks, horizontal rule branch
HorizontalRule ==
  /\ InLoop
  /\ Detector(scanIndex) = "rule"
  /\ Iteration(<<Block("hr", scanIndex, scanIndex + 1)>>, scanIndex + 1)

\* _parseBlocks, blockquote branch: _parseBlockquote(lines, i)
Blockquote ==
  /\ InLoop
  /\ Detector(scanIndex) = "blockquote"
  /\ LET next == BlockquoteEnd(scanIndex)
     IN Iteration(<<Block("blockquote", scanIndex, next)>>, next)

\* _parseBlocks, unordered list branch: _parseList(lines, i, 'ul')
UnorderedList ==
  /\ InLoop
  /\ Detector(scanIndex) = "ul"
  /\ LET next == ListEnd(scanIndex, "ul")
     IN Iteration(<<Block("ul", scanIndex, next)>>, next)

\* _parseBlocks, ordered list branch: _parseList(lines, i, 'ol')
OrderedList ==
  /\ InLoop
  /\ Detector(scanIndex) = "ol"
  /\ LET next == ListEnd(scanIndex, "ol")
     IN Iteration(<<Block("ol", scanIndex, next)>>, next)

\* _parseBlocks, table branch: _parseTable(lines, i)
Table ==
  /\ InLoop
  /\ Detector(scanIndex) = "table"
  /\ LET next == TableEnd(scanIndex + 2)
     IN Iteration(<<Block("table", scanIndex, next)>>, next)

\* _parseBlocks, last branch: a paragraph for a non-blank line, nothing for
\* a blank one
Paragraph ==
  /\ InLoop
  /\ Detector(scanIndex) = "paragraph"
  /\ Iteration(IF Trim(LineAt(scanIndex)) # <<>>
               THEN <<Block("p", scanIndex, scanIndex + 1)>> ELSE <<>>,
               scanIndex + 1)

\* _parseBlocks: the loop ends, return html.join
ParseBlocksReturn ==
  /\ blocksPc = "scan"
  /\ scanIndex >= Len(lines)
  /\ blocksPc' = "done"
  /\ UNCHANGED <<lines, scanIndex, htmlBlocks, scans>>
  /\ UNCHANGED <<sanVars, pipeVars, fnVars, batchVars, cfgVars>>

NextBlocks ==
  \/ FencedCode
  \/ Heading
  \/ HorizontalRule
  \/ Blockquote
  \/ UnorderedList
  \/ OrderedList
  \/ Table
  \/ Paragraph
  \/ ParseBlocksReturn

SpecBlocks == InitBlocks /\ [][NextBlocks]_vars

\* C8: whenever a detector fires at scan index i the next scan index is at
\* least i + 1: the loop body never runs twice at the same line.
C8_ScanIndexAdvances ==
  \A k \in 1..(Len(scans) - 1) : scans[k + 1] >= scans[k] + 1

(***************************************************************************)
(* MarkdownParser._parseInline.  The text and the HTML it returns are      *)
(* sequences of characters; every String.prototype.replace of the source   *)
(* is a left-to-right scan that replaces each leftmost match and goes on   *)
(* after it, as a regular expression with the g flag does.                 *)
(***************************************************************************)
\* the least index of the set S of indices, 0 when there is none
FirstIndex(S) == IF S = {} THEN 0 ELSE CHOOSE i \in S : \A j \in S : i <= j

\* s.indexOf(c, k), 1-based: the first index at or after k holding c, else 0
IndexOfFrom(s, c, k) == FirstIndex({ i \in k..Len(s) : s[i] = c })

\* the characters of d stand in s from index p
HasAt(s, p, d) ==
  /\ p >= 1
  /\ p + Len(d) - 1 <= Len(s)
  /\ SubSeq(s, p, p + Len(d) - 1) = d

\* the first index at or after k at which d stands in s, else 0
FindDelimiter(s, k, d) == FirstIndex({ i \in k..Len(s) : HasAt(s, i, d) })

\* s.indexOf(d) !== -1
Contains(s, d) == FindDelimiter(s, 1, d) > 0

\* the literal pieces of the replacement strings
StrongOpen == <<"<", "s", "t", "r", "o", "n", "g", ">">>
StrongClose == <<"<", "/", "s", "t", "r", "o", "n", "g", ">">>
EmOpen == <<"<", "e", "m", ">">>
EmClose == <<"<", "/", "e", "m", ">">>
SOpen == <<"<", "s", ">">>
SClose == <<"<", "/", "s", ">">>
CodeOpen == <<"<", "c", "o", "d", "e", ">">>
CodeClose == <<"<", "/", "c", "o", "d", "e", ">">>
AnchorOpen == <<"<", "a", " ", "h", "r", "e", "f", "=", "\"">>
AttrEnd == <<"\"", ">">>
AnchorClose == <<"<", "/", "a", ">">>
ImgOpen == <<"<", "i", "m", "g", " ", "s", "r", "c", "=", "\"">>
ImgAlt == <<"\"", " ", "a", "l", "t", "=", "\"">>

\* _escapeHTML: the entity of one character
EscapeChar(c) ==
  CASE c = "&" -> <<"&", "a", "m", "p", ";">>
    [] c = "<" -> <<"&", "l", "t", ";">>
    [] c = ">" -> <<"&", "g", "t", ";">>
    [] c = "\"" -> <<"&", "q", "u", "o", "t", ";">>
    [] c = "'" -> <<"&", "#", "x", "2", "7", ";">>
    [] OTHER -> <<c>>

\* MarkdownParser.prototype._escapeHTML
\* (the five replaces act on each character alone, so the text is escaped
\* half by half)
RECURSIVE EscapeHTML(_)
EscapeHTML(text) ==
  IF Len(text) <= 1 THEN (IF text = <<>> THEN <<>> ELSE EscapeChar(text[1]))
  ELSE EscapeHTML(SubSeq(text, 1, Len(text) \div 2))
         \o EscapeHTML(SubSeq(text, Len(text) \div 2 + 1, Len(text)))

\* MarkdownParser.prototype._isValidURL
IsValidURL(url) ==
  LET lowerUrl == Trim(ToLowerCase(url))
  IN /\ url # <<>>
     /\ ~StartsWith(lowerUrl, <<"j", "a", "v", "a", "s", "c", "r", "i", "p", "t", ":">>)
     /\ ~StartsWith(lowerUrl, <<"v", "b", "s", "c", "r", "i", "p", "t", ":">>)
     /\ ~StartsWith(lowerUrl, <<"d", "a", "t", "a", ":">>)
     /\ ~StartsWith(url, <<"/", "/">>)

\* MarkdownParser.prototype._isValidImageURL
IsValidImageURL(url) ==
  LET lowerUrl == Trim(ToLowerCase(url))
  IN /\ url # <<>>
     /\ ~StartsWith(lowerUrl, <<"j", "a", "v", "a", "s", "c", "r", "i", "p", "t", ":">>)
     /\ ~StartsWith(lowerUrl, <<"v", "b", "s", "c", "r", "i", "p", "t", ":">>)
     /\ ~StartsWith(url, <<"/", "/">>)
     /\ (StartsWith(lowerUrl, <<"d", "a", "t", "a", ":">>)
           => StartsWith(lowerUrl, <<"d", "a", "t", "a", ":", "i", "m", "a", "g", "e", "/">>))

\* html.replace(/D(.+?)D/g, open + '$1' + close) from index p on, D being
\* the delimiter d: the content is the shortest non-empty run before the
\* next d, and . matches no line terminator
\* /D(.+?)D/ matches s at index p
DelimitedAt(s, p, d) ==
  LET q == FindDelimiter(s, p + Len(d) + 1, d)
  IN /\ HasAt(s, p, d)
     /\ q > 0
     /\ \A j \in (p + Len(d))..(q - 1) : ~IsLineTerminator(s[j])

RECURSIVE ReplaceDelimitedFrom(_, _, _, _, _)
ReplaceDelimitedFrom(s, p, d, open, close) ==
  IF p > Len(s) THEN <<>>
  ELSE LET m == FirstIndex({ i \in p..Len(s) : DelimitedAt(s, i, d) })
           q == FindDelimiter(s, m + Len(d) + 1, d)
       IN IF m = 0 THEN SubSeq(s, p, Len(s))
          ELSE SubSeq(s, p, m - 1)
                 \o open \o SubSeq(s, m + Len(d), q - 1) \o close
                 \o ReplaceDelimitedFrom(s, q + Len(d), d, open, close)

ReplaceDelimited(s, d, open, close) == ReplaceDelimitedFrom(s, 1, d, open, close)

\* the inline code replace, /BT([^BT]+)BT/g with BT the backtick, from p on
\* /BT([^BT]+)BT/ matches s at index p
CodeAt(s, p) == s[p] = "BT" /\ IndexOfFrom(s, "BT", p + 1) > p + 1

RECURSIVE ReplaceCodeFrom(_, _)
ReplaceCodeFrom(s, p) ==
  IF p > Len(s) THEN <<>>
  ELSE LET m == FirstIndex({ i \in p..Len(s) : CodeAt(s, i) })
           q == IndexOfFrom(s, "BT", m + 1)
       IN IF m = 0 THEN SubSeq(s, p, Len(s))
          ELSE SubSeq(s, p, m - 1)
                 \o CodeOpen \o EscapeHTML(SubSeq(s, m + 1, q - 1)) \o CodeClose
                 \o ReplaceCodeFrom(s, q + 1)

\* the callback of the link replace without the test of the url
LinkReplacementUnchecked(text, url) ==
  AnchorOpen \o EscapeHTML(url) \o AttrEnd \o text \o AnchorClose

\* the callback of the link replace
LinkReplacement(text, url) ==
  IF IsValidURL(url)
  THEN AnchorOpen \o EscapeHTML(url) \o AttrEnd \o text \o AnchorClose
  ELSE text

\* the link replace, /\[([^\]]+)\]\(([^)]+)\)/g, from p on
\* /\[([^\]]+)\]\(([^)]+)\)/ matches s at index p
LinkAt(s, p) ==
  LET rb == IndexOfFrom(s, "]", p + 1)
      rp == IF rb > 0 THEN IndexOfFrom(s, ")", rb + 2) ELSE 0
  IN /\ s[p] = "["
     /\ rb > p + 1
     /\ HasAt(s, rb + 1, <<"(">>)
     /\ rp > rb + 2

RECURSIVE ReplaceLinksFrom(_, _)
ReplaceLinksFrom(s, p) ==
  IF p > Len(s) THEN <<>>
  ELSE LET m == FirstIndex({ i \in p..Len(s) : LinkAt(s, i) })
           rb == IndexOfFrom(s, "]", m + 1)
           rp == IndexOfFrom(s, ")", rb + 2)
       IN IF m = 0 THEN SubSeq(s, p, Len(s))
          ELSE SubSeq(s, p, m - 1)
                 \o LinkReplacement(SubSeq(s, m + 1, rb - 1), SubSeq(s, rb + 2, rp - 1))
                 \o ReplaceLinksFrom(s, rp + 1)

\* the callback of the image replace
ImageReplacement(alt, url) ==
  IF IsValidImageURL(url)
  THEN ImgOpen \o EscapeHTML(url) \o ImgAlt \o EscapeHTML(alt) \o AttrEnd
  ELSE <<>>

\* the image replace, /!\[([^\]]*)\]\(([^)]+)\)/g, from p on
\* /!\[([^\]]*)\]\(([^)]+)\)/ matches s at index p
ImageAt(s, p) ==
  LET rb == IndexOfFrom(s, "]", p + 2)
      rp == IF rb > 0 THEN IndexOfFrom(s, ")", rb + 2) ELSE 0
  IN /\ HasAt(s, p, <<"!", "[">>)
     /\ rb > 0
     /\ HasAt(s, rb + 1, <<"(">>)
     /\ rp > rb + 2

RECURSIVE ReplaceImagesFrom(_, _)
ReplaceImagesFrom(s, p) ==
  IF p > Len(s) THEN <<>>
  ELSE LET m == FirstIndex({ i \in p..Len(s) : ImageAt(s, i) })
           rb == IndexOfFrom(s, "]", m + 2)
           rp == IndexOfFrom(s, ")", rb + 2)
       IN IF m = 0 THEN SubSeq(s, p, Len(s))
          ELSE SubSeq(s, p, m - 1)
                 \o ImageReplacement(SubSeq(s, m + 2, rb - 1), SubSeq(s, rb + 2, rp - 1))
                 \o ReplaceImagesFrom(s, rp + 1)

\* MarkdownParser.prototype._parseInline: the eight replaces in source order
ParseInline(html) ==
  LET bold1 == ReplaceDelimited(html, <<"*", "*">>, StrongOpen, StrongClose)
      bold2 == ReplaceDelimited(bold1, <<"_", "_">>, StrongOpen, StrongClose)
      ital1 == ReplaceDelimited(bold2, <<"*">>, EmOpen, EmClose)
      ital2 == ReplaceDelimited(ital1, <<"_">>, EmOpen, EmClose)
      strike == ReplaceDelimited(ital2, <<"~", "~">>, SOpen, SClose)
      code == ReplaceCodeFrom(strike, 1)
      links == ReplaceLinksFrom(code, 1)
  IN ReplaceImagesFrom(links, 1)

(***************************************************************************)
(* SpecInline: one call of _parseInline on a text made of one link,        *)
(* image or inline code construct between two plain affixes.               *)
(***************************************************************************)
MaxText == 3

\* the characters of a link text, an alt text or a code span
InlineChars == {"a", "*", "_", "&"}

\* the strings over InlineChars of at most n characters
InlineStrings(n) == UNION { [1..k -> InlineChars] : k \in 0..n }

\* the url of a link or an image construct
Urls ==
  { <<"j", "a", "v", "a", "s", "c", "r", "i", "p", "t", ":", "x">>,
    <<"J", "a", "v", "a", "s", "c", "r", "i", "p", "t", ":", "x">>,
    <<" ", "j", "a", "v", "a", "s", "c", "r", "i", "p", "t", ":", "x">>,
    <<"v", "b", "s", "c", "r", "i", "p", "t", ":", "x">>,
    <<"V", "b", "s", "c", "r", "i", "p", "t", ":", "x">>,
    <<"d", "a", "t", "a", ":", "x">>,
    <<"D", "a", "t", "a", ":", "x">>,
    <<"d", "a", "t", "a", ":", "i", "m", "a", "g", "e", "/", "x">>,
    <<"/", "/", "h">>,
    <<"h", "t", "t", "p", ":", "/", "/", "h", "/", "?", "a", "&", "b">>,
    <<"/", "p">>,
    <<"p", ".", "h", "t", "m", "l">>,
    <<"#", "s">>,
    <<"a", "_", "b", "_", "c">> }

\* the text before and after the construct
Prefixes == { <<>>, <<"a", " ">> }
Suffixes == { <<>>, <<" ", "a">> }

InlineInputs ==
  { [pre |-> pre, kind |-> "link", body |-> b, url |-> u, post |-> post] :
      pre \in Prefixes, b \in InlineStrings(MaxText) \ { <<>> }, u \in Urls, post \in Suffixes }
  \cup
  { [pre |-> pre, kind |-> "image", body |-> b, url |-> u, post |-> post] :
      pre \in Prefixes, b \in InlineStrings(MaxText), u \in Urls, post \in Suffixes }
  \cup
  { [pre |-> pre, kind |-> "code", body |-> b, url |-> <<>>, post |-> post] :
      pre \in Prefixes, b \in InlineStrings(MaxText) \ { <<>> }, post \in Suffixes }

\* the markdown of the construct
Construct(c) ==
  CASE c.kind = "link" -> <<"[">> \o c.body \o <<"]", "(">> \o c.url \o <<")">>
    [] c.kind = "image" -> <<"!", "[">> \o c.body \o <<"]", "(">> \o c.url \o <<")">>
    [] c.kind = "code" -> <<"BT">> \o c.body \o <<"BT">>

\* the argument of _parseInline
InlineText(c) == c.pre \o Construct(c) \o c.post

InitInline ==
  /\ SanParked
  /\ hasDocument = FALSE
  /\ PipeParked
  /\ BlocksParked
  /\ BatchParked
  /\ CfgParked
  /\ fnArg \in InlineInputs
  /\ fnRet = <<>>
  /\ fnDone = FALSE

\* html = this._parseInline(html)
ParseInlineCall ==
  /\ ~fnDone
  /\ fnRet' = ParseInline(InlineText(fnArg))
  /\ fnDone' = TRUE
  /\ UNCHANGED fnArg
  /\ UNCHANGED <<sanVars, pipeVars, blockVars, batchVars, cfgVars>>

NextInline == ParseInlineCall

SpecInline == InitInline /\ [][NextInline]_vars

\* C12: an image construct whose url passes image validation (data:image/
\* urls included, empty and non-empty alt alike) is replaced by an img
\* element with src the escaped url and alt the escaped alt, and nothing
\* else (no anchor) is emitted for it.
C12_ValidImageEmitsImg ==
  (fnDone /\ fnArg.kind = "image" /\ IsValidImageURL(fnArg.url)) =>
    fnRet = fnArg.pre \o ImgOpen \o EscapeHTML(fnArg.url) \o ImgAlt
              \o EscapeHTML(fnArg.body) \o AttrEnd \o fnArg.post

\* C13: an image construct whose url fails image validation is dropped
\* whole: nothing of it (no img, no anchor, no alt text, no bracket or
\* parenthesis) is left between the text before it and the text after it.
C13_InvalidImageDropped ==
  (fnDone /\ fnArg.kind = "image" /\ ~IsValidImageURL(fnArg.url)) =>
    fnRet = fnArg.pre \o fnArg.post

\* a javascript:, vbscript: or data: prefix in any letter case, or a //
\* prefix
DangerousPrefix(url) ==
  \/ StartsWith(ToLowerCase(url), <<"j", "a", "v", "a", "s", "c", "r", "i", "p", "t", ":">>)
  \/ StartsWith(ToLowerCase(url), <<"v", "b", "s", "c", "r", "i", "p", "t", ":">>)
  \/ StartsWith(ToLowerCase(url), <<"d", "a", "t", "a", ":">>)
  \/ StartsWith(url, <<"/", "/">>)

\* the values of the href attributes of the anchors _parseInline emitted
\* (escaped as they stand in the HTML)
Hrefs(html) ==
  { SubSeq(html, k + Len(AnchorOpen), IndexOfFrom(html, "\"", k + Len(AnchorOpen)) - 1) :
      k \in { j \in 1..Len(html) :
                /\ HasAt(html, j, AnchorOpen)
                /\ IndexOfFrom(html, "\"", j + Len(AnchorOpen)) > 0 } }

PlainText(s) == \A k \in 1..Len(s) : s[k] \notin {"*", "_", "~", "BT"}

\* C14: a link construct whose url fails link validation (javascript:,
\* vbscript: or data: prefix in any letter case, or a // prefix) emits no
\* anchor element, and emits its text (a text without emphasis markers
\* exactly as it stands); no href of the output carries such a url.
C14_InvalidLinkEmitsText ==
  fnDone =>
    /\ (fnArg.kind = "link" /\ (DangerousPrefix(fnArg.url) \/ ~IsValidURL(fnArg.url))) =>
         /\ ~Contains(fnRet, <<"<", "a", " ">>)
         /\ PlainText(fnArg.body) => fnRet = fnArg.pre \o fnArg.body \o fnArg.post
    /\ \A h \in Hrefs(fnRet) : ~DangerousPrefix(h) /\ IsValidURL(h)

\* a link to javascript:x was parsed and only its text was emitted
C14_Witness ==
  /\ fnDone
  /\ fnArg.kind = "link"
  /\ fnArg.url = <<"J", "a", "v", "a", "s", "c", "r", "i", "p", "t", ":", "x">>
  /\ fnArg.body = <<"a", "&">>
  /\ fnRet = fnArg.pre \o <<"a", "&">> \o fnArg.post

\* C15: a backtick-delimited span is replaced by a code element that holds
\* exactly the escaped characters of the span: the emphasis markers inside
\* are not interpreted.
C15_CodeSpanVerbatim ==
  (fnDone /\ fnArg.kind = "code") =>
    fnRet = fnArg.pre \o CodeOpen \o EscapeHTML(fnArg.body) \o CodeClose \o fnArg.post

(***************************************************************************)
(* MarkdownParser._parseHeading and _generateId                            *)
(***************************************************************************)
\* the characters the regular expression class \w matches
IsWordChar(c) ==
  \/ IsDigit(c)
  \/ c = "_"
  \/ c \in {"a", "b", "c", "d", "e", "f", "g", "h", "i", "j", "k", "l", "m",
            "n", "o", "p", "q", "r", "s", "t", "u", "v", "w", "x", "y", "z"}
  \/ c \in {"A", "B", "C", "D", "E", "F", "G", "H", "I", "J", "K", "L", "M",
            "N", "O", "P", "Q", "R", "S", "T", "U", "V", "W", "X", "Y", "Z"}

\* .replace(/[^\w\s-]/g, '')
StripNonWord(text) ==
  SelectSeq(text, LAMBDA c : IsWordChar(c) \/ IsWhitespace(c) \/ c = "-")

\* .replace(/\s+/g, '-'): every run of whitespace becomes one hyphen
HyphenateWhitespace(text) ==
  LET first == SelectSeq([i \in 1..Len(text) |-> i],
                         LAMBDA i : ~(IsWhitespace(text[i]) /\ i > 1 /\ IsWhitespace(text[i - 1])))
  IN [k \in 1..Len(first) |-> IF IsWhitespace(text[first[k]]) THEN "-" ELSE text[first[k]]]

\* .replace(/-+/g, '-'): every run of hyphens becomes one hyphen
CollapseHyphens(text) ==
  LET first == SelectSeq([i \in 1..Len(text) |-> i],
                         LAMBDA i : ~(text[i] = "-" /\ i > 1 /\ text[i - 1] = "-"))
  IN [k \in 1..Len(first) |-> text[first[k]]]

\* MarkdownParser.prototype._generateId
GenerateId(text) ==
  Trim(CollapseHyphens(HyphenateWhitespace(StripNonWord(ToLowerCase(text)))))

\* match[1].length of /^(#{1,6})\s+(.+)$/: the hashes the line begins with
RECURSIVE HeadingLevel(_)
HeadingLevel(line) ==
  IF line # <<>> /\ Head(line) = "#" THEN 1 + HeadingLevel(Tail(line)) ELSE 0

\* the decimal digit of a heading level
LevelDigit(level) == <<"1", "2", "3", "4", "5", "6">>[level]

\* MarkdownParser.prototype._parseHeading; match[2].trim() is what follows
\* the hashes, trimmed
ParseHeading(line) ==
  IF ~MatchesHeading(line) THEN line
  ELSE LET level == HeadingLevel(line)
           text == Trim(SubSeq(line, level + 1, Len(line)))
       IN <<"<", "h", LevelDigit(level), " ", "i", "d", "=", "\"">> \o GenerateId(text)
            \o AttrEnd \o text \o <<"<", "/", "h", LevelDigit(level), ">">>

(***************************************************************************)
(* SpecHeading: _parseBlocks on the single line '#' * n + ' ' + text       *)
(***************************************************************************)
MaxHeadingText == 3

HeadingChars == {"H", "a", " ", "-", "!"}

HeadingInputs ==
  { [level |-> n, text |-> t] :
      n \in 1..6, t \in UNION { [1..k -> HeadingChars] : k \in 1..MaxHeadingText } }

\* the line '#' * n + ' ' + text
HeadingLine(h) == [k \in 1..h.level |-> "#"] \o <<" ">> \o h.text

InitHeading ==
  /\ SanParked
  /\ hasDocument = FALSE
  /\ PipeParked
  /\ BlocksParked
  /\ BatchParked
  /\ CfgParked
  /\ fnArg \in HeadingInputs
  /\ fnRet = <<>>
  /\ fnDone = FALSE

\* _parseBlocks on the one line: no fence, the heading detector fires and
\* html.push(this._parseHeading(line))
ParseHeadingCall ==
  /\ ~fnDone
  /\ ~IsFenceStart(HeadingLine(fnArg))
  /\ IsHeadingStart(HeadingLine(fnArg))
  /\ fnRet' = ParseHeading(HeadingLine(fnArg))
  /\ fnDone' = TRUE
  /\ UNCHANGED fnArg
  /\ UNCHANGED <<sanVars, pipeVars, blockVars, batchVars, cfgVars>>

NextHeading == ParseHeadingCall

SpecHeading == InitHeading /\ [][NextHeading]_vars

\* the value of the id attribute of an emitted heading
HeadingId(html) == SubSeq(html, 9, IndexOfFrom(html, "\"", 9) - 1)

\* edge hyphens trimmed
RECURSIVE TrimHyphens(_)
TrimHyphens(s) ==
  IF s # <<>> /\ Head(s) = "-" THEN TrimHyphens(Tail(s))
  ELSE IF s # <<>> /\ s[Len(s)] = "-" THEN TrimHyphens(SubSeq(s, 1, Len(s) - 1))
  ELSE s

\* C16: for every level n in 1..6 and every non-empty text the line
\* '#' * n + ' ' + text yields a heading of depth n whose id is the text
\* lowercased, stripped of the characters that are not word characters,
\* whitespace or hyphens, with whitespace runs replaced by one hyphen and
\* edge hyphens trimmed: the id never begins or ends with a hyphen.
C16_HeadingIdFromText ==
  fnDone =>
    LET text == Trim(fnArg.text)
        id == HeadingId(fnRet)
    IN /\ StartsWith(fnRet, <<"<", "h", LevelDigit(fnArg.level), " ", "i", "d", "=", "\"">>)
       /\ id = TrimHyphens(CollapseHyphens(HyphenateWhitespace(StripNonWord(ToLowerCase(text)))))
       /\ (id # <<>> => id[1] # "-" /\ id[Len(id)] # "-")

(***************************************************************************)
(* The parser's output handed to the sanitizer, as MarkdownToPDF.convert   *)
(* does.  container.innerHTML = html tokenizes the characters the parser   *)
(* emitted into the start tags, end tags and text the DOM is built from.   *)
(***************************************************************************)
\* the tag names the parser emits
TagOf(chars) ==
  CASE chars = <<"h", "1">> -> "h1"
    [] chars = <<"h", "2">> -> "h2"
    [] chars = <<"h", "3">> -> "h3"
    [] chars = <<"h", "4">> -> "h4"
    [] chars = <<"h", "5">> -> "h5"
    [] chars = <<"h", "6">> -> "h6"
    [] chars = <<"p">> -> "p"
    [] chars = <<"s", "t", "r", "o", "n", "g">> -> "strong"
    [] chars = <<"e", "m">> -> "em"
    [] chars = <<"s">> -> "s"
    [] chars = <<"c", "o", "d", "e">> -> "code"
    [] chars = <<"a">> -> "a"
    [] chars = <<"i", "m", "g">> -> "img"
    [] OTHER -> "unknown"

\* the attribute names the parser emits
AttrOf(chars) ==
  CASE chars = <<"i", "d">> -> "id"
    [] chars = <<"h", "r", "e", "f">> -> "href"
    [] chars = <<"s", "r", "c">> -> "src"
    [] chars = <<"a", "l", "t">> -> "alt"
    [] OTHER -> "unknown"

\* the character reference s holds at index p, if it is one _escapeHTML
\* emits: the character it stands for and its length
EntityAt(s, p) ==
  IF HasAt(s, p, <<"&", "a", "m", "p", ";">>) THEN [ch |-> "&", len |-> 5]
  ELSE IF HasAt(s, p, <<"&", "l", "t", ";">>) THEN [ch |-> "<", len |-> 4]
  ELSE IF HasAt(s, p, <<"&", "g", "t", ";">>) THEN [ch |-> ">", len |-> 4]
  ELSE IF HasAt(s, p, <<"&", "q", "u", "o", "t", ";">>) THEN [ch |-> "\"", len |-> 6]
  ELSE IF HasAt(s, p, <<"&", "#", "x", "2", "7", ";">>) THEN [ch |-> "'", len |-> 6]
  ELSE [ch |-> s[p], len |-> 1]

\* the characters of s from index p on with the character references
\* replaced: a reference holds no & after its first character, so an index
\* inside one begins no other
DecodeEntities(s, p) ==
  LET first == SelectSeq([i \in 1..Len(s) |-> i],
                         LAMBDA i : /\ i >= p
                                    /\ \A q \in p..(i - 1) : q + EntityAt(s, q).len <= i)
  IN [k \in 1..Len(first) |-> EntityAt(s, first[k]).ch]

\* the attributes of a start tag from index p on, and the index after its >
RECURSIVE TagAttributes(_, _)
TagAttributes(s, p) ==
  IF p > Len(s) THEN [attrs |-> <<>>, pos |-> p]
  ELSE IF s[p] = ">" THEN [attrs |-> <<>>, pos |-> p + 1]
  ELSE IF s[p] = " " THEN TagAttributes(s, p + 1)
  ELSE LET eq == IndexOfFrom(s, "=", p)
           close == IF eq > 0 THEN IndexOfFrom(s, "\"", eq + 2) ELSE 0
       IN IF eq = 0 \/ close = 0 THEN [attrs |-> <<>>, pos |-> Len(s) + 1]
          ELSE LET rest == TagAttributes(s, close + 1)
               IN [attrs |-> <<Attr(AttrOf(SubSeq(s, p, eq - 1)),
                                    DecodeEntities(SubSeq(s, eq + 2, close - 1), 1))>>
                               \o rest.attrs,
                   pos |-> rest.pos]

\* the index at or after p of the first space or >, else Len(s) + 1
TagNameEnd(s, p) ==
  LET e == FirstIndex({ i \in p..Len(s) : s[i] \in {" ", ">"} })
  IN IF e = 0 THEN Len(s) + 1 ELSE e

\* the tokens of the characters of s from index p on
\* an end tag stands in s at index p
EndTagAt(s, p) == HasAt(s, p, <<"<", "/">>) /\ IndexOfFrom(s, ">", p) > 0

\* a start tag stands in s at index p
StartTagAt(s, p) == s[p] = "<" /\ p < Len(s) /\ IsWordChar(s[p + 1])

\* the character tokens of the text t
TextToks(t) == [k \in 1..Len(DecodeEntities(t, 1)) |-> CharTok(DecodeEntities(t, 1)[k])]

RECURSIVE Tokenize(_, _)
Tokenize(s, p) ==
  IF p > Len(s) THEN <<>>
  ELSE IF EndTagAt(s, p)
  THEN <<CloseTok(TagOf(SubSeq(s, p + 2, IndexOfFrom(s, ">", p) - 1)))>>
         \o Tokenize(s, IndexOfFrom(s, ">", p) + 1)
  ELSE IF StartTagAt(s, p)
  THEN LET e == TagNameEnd(s, p + 1)
           a == TagAttributes(s, e)
       IN <<OpenTok(TagOf(SubSeq(s, p + 1, e - 1)), a.attrs)>> \o Tokenize(s, a.pos)
  ELSE LET t == FirstIndex({ i \in (p + 1)..Len(s) : EndTagAt(s, i) \/ StartTagAt(s, i) })
           e == IF t = 0 THEN Len(s) + 1 ELSE t
       IN TextToks(SubSeq(s, p, e - 1)) \o Tokenize(s, e)

\* the block stage on a text of one line: a heading, or the paragraph
\* fallback '<p>' + line + '</p>'
ParseBlocksLine(line) ==
  IF IsHeadingStart(line) THEN ParseHeading(line)
  ELSE <<"<", "p", ">">> \o line \o <<"<", "/", "p", ">">>

\* the lines no detector between the heading and the paragraph fires on
NoOtherBlock(line) ==
  /\ ~IsFenceStart(line)
  /\ ~IsRule(line)
  /\ ~IsBlockquoteLine(line)
  /\ ~IsUnorderedStart(line)
  /\ ~IsOrderedStart(line)
  /\ ~IsTableRow(line)
  /\ Trim(line) # <<>>

(***************************************************************************)
(* SpecPreserve: one line of markdown without raw HTML is parsed (block    *)
(* stage, inline stage) and the result is sanitized.                       *)
(***************************************************************************)
MaxInlineBody == 1

PreserveInputs ==
  { [heading |-> h, c |-> c] :
      h \in BOOLEAN,
      c \in { x \in InlineInputs : Len(x.body) <= MaxInlineBody /\ x.pre = <<>> /\ x.post = <<>> } }

\* the markdown line
PreserveLine(a) == (IF a.heading THEN <<"#", " ">> ELSE <<>>) \o InlineText(a.c)

InitPreserve ==
  /\ SanParked
  /\ hasDocument \in BOOLEAN
  /\ PipeParked
  /\ BlocksParked
  /\ BatchParked
  /\ CfgParked
  /\ fnArg \in PreserveInputs
  /\ fnRet = <<>>
  /\ fnDone = FALSE

\* MarkdownToPDF.prototype.convert: html = this.parser.parse(markdown), then
\* html = this.sanitizer.sanitize(html)
ParseThenSanitize ==
  /\ ~fnDone
  /\ NoOtherBlock(PreserveLine(fnArg))
  /\ LET html == Tokenize(ParseInline(ParseBlocksLine(PreserveLine(fnArg))), 1)
     IN fnRet' = [parsed |-> html, sanitized |-> Sanitize(html, hasDocument)]
  /\ fnDone' = TRUE
  /\ UNCHANGED <<fnArg, hasDocument>>
  /\ UNCHANGED <<sanHtml, sanTree, sanFirst, sanOut, sanCalls>>
  /\ UNCHANGED <<pipeVars, blockVars, batchVars, cfgVars>>

NextPreserve == ParseThenSanitize

SpecPreserve == InitPreserve /\ [][NextPreserve]_vars

\* C17: sanitize is the identity on what the parser produced from markdown
\* without raw HTML: no tag and no attribute (heading id, href of a link
\* whose url passed validation, img src and alt) is removed.
C17_SanitizePreservesParserOutput ==
  fnDone => fnRet.sanitized = fnRet.parsed

\* C18: every entry _parseBlocks emits is a block (heading, rule, code
\* block, blockquote, list, table or paragraph), never a source line
\* without a wrapping block tag, and when it returns every non-blank line
\* lies in the lines one of the emitted blocks was parsed from.
C18_EveryLineInABlock ==
  /\ \A k \in 1..Len(htmlBlocks) :
       htmlBlocks[k].kind \in {"heading", "hr", "code", "blockquote", "ul", "ol", "table", "p"}
  /\ blocksPc = "done" =>
       \A j \in 0..(Len(lines) - 1) :
         Trim(LineAt(j)) # <<>> =>
           \E k \in 1..Len(htmlBlocks) : htmlBlocks[k].from <= j /\ j < htmlBlocks[k].next

(***************************************************************************)
(* ImageProcessor.process                                                  *)
(***************************************************************************)
\* the two quote characters of the pattern of _extractAttribute
IsQuote(c) == c \in {"\"", "'"}

\* index of the first quote character at or after k, else 0
QuoteFrom(s, k) == FirstIndex({ i \in k..Len(s) : IsQuote(s[i]) })

\* attributes.match(new RegExp(name + '=["\']([^"\']*)["\']', 'i')) from
\* index p on: match[1] of the leftmost match, found FALSE for null
\* the pattern matches attributes at index p
AttributeAt(attributes, name, p) ==
  LET v == p + Len(name) + 2
  IN /\ HasAt(ToLowerCase(attributes), p, name \o <<"=">>)
     /\ v - 1 <= Len(attributes)
     /\ IsQuote(attributes[v - 1])
     /\ QuoteFrom(attributes, v) > 0

ExtractAttributeFrom(attributes, name, p) ==
  LET m == FirstIndex({ i \in p..Len(attributes) : AttributeAt(attributes, name, i) })
      v == m + Len(name) + 2
  IN IF m = 0 THEN [found |-> FALSE, value |-> <<>>]
     ELSE [found |-> TRUE, value |-> SubSeq(attributes, v, QuoteFrom(attributes, v) - 1)]

\* ImageProcessor.prototype._extractAttribute
ExtractAttribute(attributes, name) == ExtractAttributeFrom(attributes, name, 1)

\* a value that is neither null nor the empty string
Truthy(a) == a.found /\ a.value # <<>>

validExtensions ==
  { <<".", "p", "n", "g">>, <<".", "j", "p", "g">>, <<".", "j", "p", "e", "g">>,
    <<".", "g", "i", "f">>, <<".", "s", "v", "g">>, <<".", "w", "e", "b", "p">>,
    <<".", "b", "m", "p">> }

validFormats ==
  { <<"d", "a", "t", "a", ":", "i", "m", "a", "g", "e", "/", "p", "n", "g">>,
    <<"d", "a", "t", "a", ":", "i", "m", "a", "g", "e", "/", "j", "p", "e", "g">>,
    <<"d", "a", "t", "a", ":", "i", "m", "a", "g", "e", "/", "j", "p", "g">>,
    <<"d", "a", "t", "a", ":", "i", "m", "a", "g", "e", "/", "g", "i", "f">>,
    <<"d", "a", "t", "a", ":", "i", "m", "a", "g", "e", "/", "s", "v", "g", "+", "x", "m", "l">>,
    <<"d", "a", "t", "a", ":", "i", "m", "a", "g", "e", "/", "w", "e", "b", "p">> }

\* ImageProcessor.prototype._validateBase64Image
ValidateBase64Image(src) == \E f \in validFormats : StartsWith(src, f)

\* ImageProcessor.prototype._validateURL
ValidateURL(url) ==
  /\ ~Contains(url, <<"j", "a", "v", "a", "s", "c", "r", "i", "p", "t", ":">>)
  /\ \E e \in validExtensions : Contains(ToLowerCase(url), e)

\* ImageProcessor.prototype._validateLocalPath
ValidateLocalPath(path) ==
  /\ ~Contains(path, <<".", ".">>)
  /\ \E e \in validExtensions : Contains(ToLowerCase(path), e)

\* ImageProcessor.prototype._processSrc: whether the src is kept (the
\* processed source is then src itself) or null is returned.  security is
\* "undefined" for a config without a security section, else the value of
\* security.allowRemoteImages
ProcessSrc(src, security) ==
  IF ~Truthy(src) THEN FALSE
  ELSE IF StartsWith(src.value, <<"d", "a", "t", "a", ":", "i", "m", "a", "g", "e", "/">>)
  THEN ValidateBase64Image(src.value)
  ELSE IF \/ StartsWith(src.value, <<"h", "t", "t", "p", ":", "/", "/">>)
          \/ StartsWith(src.value, <<"h", "t", "t", "p", "s", ":", "/", "/">>)
  THEN IF security = "false" THEN FALSE ELSE ValidateURL(src.value)
  ELSE ValidateLocalPath(src.value)

\* ImageProcessor.prototype._sanitizeSize
SanitizeSize(size) ==
  LET d == SkipDigits(size, 1)
      unit == SubSeq(size, d, Len(size))
  IN IF d > 1 /\ unit \in { <<>>, <<"p", "x">>, <<"e", "m">>, <<"r", "e", "m">>, <<"%">>,
                             <<"c", "m">>, <<"m", "m">>, <<"i", "n">> }
     THEN size ELSE <<>>

\* '<span class="image-error">[Invalid image: '
ImageErrorOpen ==
  <<"<", "s", "p", "a", "n", " ", "c", "l", "a", "s", "s", "=", "\"",
    "i", "m", "a", "g", "e", "-", "e", "r", "r", "o", "r", "\"", ">", "[",
    "I", "n", "v", "a", "l", "i", "d", " ", "i", "m", "a", "g", "e", ":", " ">>

\* ']</span>'
ImageErrorClose == <<"]", "<", "/", "s", "p", "a", "n", ">">>

\* ' name="' + value + '"' when the attribute is set, else nothing
OptionalAttribute(name, a, value) ==
  IF Truthy(a) THEN <<" ">> \o name \o <<"=", "\"">> \o value \o <<"\"">> ELSE <<>>

\* ImageProcessor.prototype._processImage
ProcessImage(attributes, security) ==
  LET src == ExtractAttribute(attributes, <<"s", "r", "c">>)
      alt == ExtractAttribute(attributes, <<"a", "l", "t">>)
      title == ExtractAttribute(attributes, <<"t", "i", "t", "l", "e">>)
      width == ExtractAttribute(attributes, <<"w", "i", "d", "t", "h">>)
      height == ExtractAttribute(attributes, <<"h", "e", "i", "g", "h", "t">>)
  IN IF ~ProcessSrc(src, security)
     THEN ImageErrorOpen
            \o EscapeHTML(IF Truthy(alt) THEN alt.value
                          ELSE <<"n", "o", " ", "d", "e", "s", "c", "r", "i", "p", "t", "i", "o", "n">>)
            \o ImageErrorClose
     ELSE ImgOpen \o src.value \o <<"\"">>
            \o OptionalAttribute(<<"a", "l", "t">>, alt, EscapeHTML(alt.value))
            \o OptionalAttribute(<<"t", "i", "t", "l", "e">>, title, EscapeHTML(title.value))
            \o OptionalAttribute(<<"w", "i", "d", "t", "h">>, width, SanitizeSize(width.value))
            \o OptionalAttribute(<<"h", "e", "i", "g", "h", "t">>, height, SanitizeSize(height.value))
            \o <<" ", "c", "l", "a", "s", "s", "=", "\"", "p", "r", "o", "c", "e", "s", "s", "e", "d",
                 "-", "i", "m", "a", "g", "e", "\"", ">">>

\* ImageProcessor.prototype.process: html.replace(/<img([^>]*)>/g, ...) from
\* index p on
\* /<img([^>]*)>/ matches html at index p
ImgTagAt(html, p) ==
  HasAt(html, p, <<"<", "i", "m", "g">>) /\ IndexOfFrom(html, ">", p + 4) > 0

RECURSIVE ProcessFrom(_, _, _)
ProcessFrom(html, p, security) ==
  IF p > Len(html) THEN <<>>
  ELSE LET m == FirstIndex({ i \in p..Len(html) : ImgTagAt(html, i) })
           gt == IndexOfFrom(html, ">", m + 4)
       IN IF m = 0 THEN SubSeq(html, p, Len(html))
          ELSE SubSeq(html, p, m - 1)
                 \o ProcessImage(SubSeq(html, m + 4, gt - 1), security)
                 \o ProcessFrom(html, gt + 1, security)

(***************************************************************************)
(* SpecImages: ImageProcessor.process on the img elements the parser       *)
(* emits, under each setting of security.allowRemoteImages.                *)
(***************************************************************************)
MaxImages == 2

ImageSources ==
  { <<"h", "t", "t", "p", ":", "/", "/", "h", "/", "x", ".", "p", "n", "g">>,
    <<"H", "t", "t", "p", ":", "/", "/", "h", "/", "x", ".", "p", "n", "g">>,
    <<"h", "t", "t", "p", "s", ":", "/", "/", "h", "/", "x", ".", "p", "n", "g">>,
    <<"h", "t", "t", "p", ":", "/", "/", "h", "/", "x">>,
    <<"/", "/", "h", "/", "x", ".", "p", "n", "g">>,
    <<"/", "x", ".", "p", "n", "g">>,
    <<"x", ".", "p", "n", "g">>,
    <<".", ".", "/", "x", ".", "p", "n", "g">>,
    <<"x", ".", "t", "x", "t">>,
    <<"d", "a", "t", "a", ":", "i", "m", "a", "g", "e", "/", "p", "n", "g", ";", "x">>,
    <<"d", "a", "t", "a", ":", "i", "m", "a", "g", "e", "/", "x">> }

ImageAlts == { <<>>, <<"a", "&">> }

\* '<img src="' + src + '" alt="' + alt + '">', as _parseInline emits it
ImgElement(i) == ImgOpen \o i.src \o ImgAlt \o i.alt \o AttrEnd

RECURSIVE ImgElements(_)
ImgElements(is) ==
  IF is = <<>> THEN <<>> ELSE ImgElement(Head(is)) \o <<"a">> \o ImgElements(Tail(is))

ImageInputs ==
  { [images |-> is, security |-> sec] :
      is \in UNION { [1..n -> [src : ImageSources, alt : ImageAlts]] : n \in 1..MaxImages },
      sec \in {"undefined", "true", "false"} }

InitImages ==
  /\ SanParked
  /\ hasDocument = FALSE
  /\ PipeParked
  /\ BlocksParked
  /\ BatchParked
  /\ CfgParked
  /\ fnArg \in ImageInputs
  /\ fnRet = <<>>
  /\ fnDone = FALSE

\* plugin.process(result, this.config) of the ImageProcessor plugin
ProcessCall ==
  /\ ~fnDone
  /\ fnRet' = ProcessFrom(ImgElements(fnArg.images), 1, fnArg.security)
  /\ fnDone' = TRUE
  /\ UNCHANGED fnArg
  /\ UNCHANGED <<sanVars, pipeVars, blockVars, batchVars, cfgVars>>

NextImages == ProcessCall

SpecImages == InitImages /\ [][NextImages]_vars

\* the values of the src attributes of the img elements of html
ImgSources(html) ==
  { SubSeq(html, k + Len(ImgOpen), IndexOfFrom(html, "\"", k + Len(ImgOpen)) - 1) :
      k \in { j \in 1..Len(html) :
                /\ HasAt(html, j, ImgOpen)
                /\ IndexOfFrom(html, "\"", j + Len(ImgOpen)) > 0 } }

\* a src that is not local: http:// or https:// in any letter case, or the
\* protocol-relative prefix //
RemoteSource(src) ==
  \/ StartsWith(ToLowerCase(src), <<"h", "t", "t", "p", ":", "/", "/">>)
  \/ StartsWith(ToLowerCase(src), <<"h", "t", "t", "p", "s", ":", "/", "/">>)
  \/ StartsWith(src, <<"/", "/">>)

\* C19: with security.allowRemoteImages false no img of the output of
\* ImageProcessor.process has a src that begins, in any letter case, with
\* http:// or https://, or with //.
C19_NoRemoteImageSurvives ==
  (fnDone /\ fnArg.security = "false") =>
    \A src \in ImgSources(fnRet) : ~RemoteSource(src)

(***************************************************************************)
(* SpecUrl: Sanitizer._isValidURL on one attribute value                   *)
(***************************************************************************)
MaxTail == 2

\* what a value begins with: schemes in lower and mixed case, path and
\* anchor prefixes, and nothing
UrlPrefixes ==
  { <<>>,
    <<"j", "a", "v", "a", "s", "c", "r", "i", "p", "t", ":">>,
    <<"J", "a", "v", "a", "s", "c", "r", "i", "p", "t", ":">>,
    <<"v", "b", "s", "c", "r", "i", "p", "t", ":">>,
    <<"V", "b", "s", "c", "r", "i", "p", "t", ":">>,
    <<"d", "a", "t", "a", ":">>,
    <<"d", "a", "t", "a", ":", "i", "m", "a", "g", "e", "/">>,
    <<"D", "a", "t", "a", ":", "i", "m", "a", "g", "e", "/">>,
    <<"h", "t", "t", "p", ":", "/", "/">>,
    <<"H", "t", "t", "p", ":", "/", "/">>,
    <<"h", "t", "t", "p", "s", ":", "/", "/">>,
    <<"m", "a", "i", "l", "t", "o", ":">>,
    <<"f", "t", "p", ":", "/", "/">>,
    <<"/">>,
    <<".", "/">>,
    <<".", ".", "/">>,
    <<"#">> }

\* what follows the prefix
UrlTails == UNION { [1..k -> {"a", "/", "."}] : k \in 0..MaxTail }

UrlInputs == { p \o t : p \in UrlPrefixes, t \in UrlTails }

InitUrl ==
  /\ SanParked
  /\ hasDocument = TRUE
  /\ PipeParked
  /\ BlocksParked
  /\ BatchParked
  /\ CfgParked
  /\ fnArg \in UrlInputs
  /\ fnRet = <<>>
  /\ fnDone = FALSE

\* this._isValidURL(attr.value)
IsValidURLCall ==
  /\ ~fnDone
  /\ fnRet' = SanIsValidURL(fnArg)
  /\ fnDone' = TRUE
  /\ UNCHANGED fnArg
  /\ UNCHANGED <<sanVars, pipeVars, blockVars, batchVars, cfgVars>>

NextUrl == IsValidURLCall

SpecUrl == InitUrl /\ [][NextUrl]_vars

\* a value without a scheme that is not protocol-relative: a root-relative,
\* relative or dot-relative path, or an anchor
SchemelessValue(url) ==
  /\ url # <<>>
  /\ ~Contains(url, <<":">>)
  /\ ~StartsWith(url, <<"/", "/">>)

\* C20: Sanitizer._isValidURL rejects every value that begins in any letter
\* case with javascript: or vbscript:, every value that begins with //, and
\* every data: value other than data:image/...; it accepts every value with
\* a scheme of allowedSchemes, every root-relative, relative (a bare
\* relative path included) and dot-relative path, and every value that
\* begins with #.
C20_UrlValidation ==
  fnDone =>
    /\ StartsWith(ToLowerCase(fnArg), <<"j", "a", "v", "a", "s", "c", "r", "i", "p", "t", ":">>) => ~fnRet
    /\ StartsWith(ToLowerCase(fnArg), <<"v", "b", "s", "c", "r", "i", "p", "t", ":">>) => ~fnRet
    /\ StartsWith(fnArg, <<"/", "/">>) => ~fnRet
    /\ (/\ StartsWith(ToLowerCase(fnArg), <<"d", "a", "t", "a", ":">>)
        /\ ~StartsWith(ToLowerCase(fnArg), <<"d", "a", "t", "a", ":", "i", "m", "a", "g", "e", "/">>))
         => ~fnRet
    /\ StartsWith(fnArg, <<"d", "a", "t", "a", ":", "i", "m", "a", "g", "e", "/">>) => fnRet
    /\ (\E k \in 1..3 : StartsWith(fnArg, allowedSchemes[k])) => fnRet
    /\ SchemelessValue(fnArg) => fnRet

(***************************************************************************)
(* SpecText: sanitize on DOM forests whose text nodes differ, so that a    *)
(* text node dropped, changed or moved shows in the returned string.       *)
(***************************************************************************)
MaxTextNodes == 4

\* elements that may have children: one allowed, one disallowed
TextContainerTags == {"div", "font"}

TextLeafNodes == { TextNode(<<"x">>), TextNode(<<"y">>), CommentNode }

RECURSIVE TextTrees(_), TextForests(_)
TextTrees(n) ==
  IF n = 1
  THEN TextLeafNodes \cup { Element(t, <<>>, <<>>) : t \in TextContainerTags }
  ELSE { Element(t, <<>>, f) : t \in TextContainerTags, f \in TextForests(n - 1) }

TextForests(n) ==
  IF n = 0 THEN { <<>> }
  ELSE UNION { { <<t>> \o f : t \in TextTrees(k), f \in TextForests(n - k) } : k \in 1..n }

TextInputHtml(n) == { SerializeNodes(f) : f \in UNION { TextForests(k) : k \in 0..n } }

InitText ==
  /\ PipeParked
  /\ FnParked
  /\ BlocksParked
  /\ BatchParked
  /\ CfgParked
  /\ hasDocument \in BOOLEAN
  /\ sanHtml \in TextInputHtml(MaxTextNodes)
  /\ sanTree = <<>>
  /\ sanFirst = <<>>
  /\ sanOut = <<>>
  /\ sanCalls = 0

SpecText == InitText /\ [][NextSan]_vars

\* the characters of the text nodes of a serialized forest, in document order
TextOf(html) ==
  LET chars == SelectSeq(html, LAMBDA t : t.k = "char")
  IN [j \in 1..Len(chars) |-> chars[j].ch]

\* C21: sanitize never modifies, drops or reorders text: the text of the
\* returned string, in document order, is the text of the input, also where
\* a disallowed element was unwrapped and its children took its place.
C21_TextNodesPreserved ==
  sanCalls >= 1 => TextOf(sanFirst) = TextOf(sanHtml)

\* a disallowed element with text inside and text after it was unwrapped
C21_Witness ==
  /\ hasDocument
  /\ sanCalls >= 1
  /\ sanHtml = <<OpenTok("font", <<>>), CharTok("x"), CloseTok("font"), CharTok("y")>>
  /\ sanFirst = <<CharTok("x"), CharTok("y")>>

(***************************************************************************)
(* SpecBatch: MarkdownToPDF.batchConvert and PDFGenerator.batchProcess.    *)
(* files.forEach starts every file; what completes synchronously reports   *)
(* inside forEach, in index order, and every asynchronous operation        *)
(* (fs.readFile, fs.writeFile, iframe.onload, the timer) completes later,  *)
(* in any order.                                                           *)
(***************************************************************************)
MaxFiles == 3

\* what goes wrong with a file: nothing; fs.readFile fails; parse or render
\* throws; fs.writeFile fails; a DOM call of _generateBrowserPDF throws;
\* the try block of iframe.onload throws
Fates == {"ok", "readFails", "parseThrows", "writeFails", "domThrows", "onloadThrows"}

\* the fates that change what entry point e does in environment v
FatesOf(e, v) ==
  IF e = "batchConvert"
  THEN (IF v = "node" THEN {"ok", "readFails", "parseThrows", "writeFails"} ELSE {"ok"})
  ELSE (IF v = "browser" THEN {"ok", "parseThrows", "domThrows", "onloadThrows"}
        ELSE {"ok", "parseThrows"})

\* the first argument of the batch callback: errors.length > 0 ? errors : null
ErrorsOrNull(e) == [null |-> Len(e) = 0, value |-> e]

\* the closure state of one batch call
Closure(c, e, r, calls) == [completed |-> c, errors |-> e, results |-> r, calls |-> calls]

\* the per-file callback counting only the files that succeeded
ReportCountingSuccesses(st, i, failed) ==
  LET c == IF failed THEN st.completed ELSE st.completed + 1
      e == IF failed THEN Append(st.errors, i) ELSE st.errors
      r == IF failed THEN st.results ELSE Append(st.results, i)
  IN Closure(c, e, r,
             IF c = Len(files)
             THEN Append(st.calls, [error |-> ErrorsOrNull(e), errors |-> e, results |-> r])
             ELSE st.calls)

\* the per-file callback function(error, result) of file index i:
\* completed++, the push to errors or results, and the batch callback when
\* completed === files.length
Report(st, i, failed) ==
  LET c == st.completed + 1
      e == IF failed THEN Append(st.errors, i) ELSE st.errors
      r == IF failed THEN st.results ELSE Append(st.results, i)
  IN Closure(c, e, r,
             IF c = Len(files)
             THEN Append(st.calls, [error |-> ErrorsOrNull(e), errors |-> e, results |-> r])
             ELSE st.calls)

\* the per-file callback invoked inside the try block of generateFromMarkdown
\* (lines 42-50): when the batch callback it invokes throws, the catch block
\* (line 52) invokes the per-file callback again with the error
ReportInTry(st, i, failed) ==
  LET s1 == Report(st, i, failed)
  IN IF Len(s1.calls) > Len(st.calls) /\ callbackThrows THEN Report(s1, i, TRUE) ELSE s1

\* whether file i has reported when the function forEach calls for it returns
ReportsAtOnce(e, v, fate) ==
  IF e = "batchConvert" THEN v # "node"
  ELSE fate = "parseThrows" \/ v # "browser" \/ fate = "domThrows"

\* the asynchronous operation the function forEach calls for file i leaves
\* outstanding
FirstOperation(e, v, fate) ==
  IF ReportsAtOnce(e, v, fate) THEN "done"
  ELSE IF e = "batchConvert" THEN "read" ELSE "onload"

\* the closure state after the function forEach calls for file i:
\* convertFile without require calls back with the ENV_ERROR; 
\* generateFromMarkdown calls back from its catch block when parse or a DOM
\* call throws, and from inside its try block in Node (the result) and in
\* an unsupported environment (the error)
StartFile(st, e, v, i) ==
  IF ~ReportsAtOnce(e, v, files[i]) THEN st
  ELSE IF e = "batchConvert" THEN Report(st, i, TRUE)
  ELSE IF files[i] \in {"parseThrows", "domThrows"} THEN Report(st, i, TRUE)
  ELSE ReportInTry(st, i, v = "none")

\* files.forEach from index i on
RECURSIVE ForEach(_, _, _, _)
ForEach(st, e, v, i) ==
  IF i > Len(files) THEN st ELSE ForEach(StartFile(st, e, v, i), e, v, i + 1)

InitBatch ==
  /\ SanParked
  /\ hasDocument = FALSE
  /\ PipeParked
  /\ BlocksParked
  /\ FnParked
  /\ CfgParked
  /\ batchEntry \in {"batchConvert", "batchProcess"}
  /\ batchEnv \in {"browser", "node", "none"}
  /\ files \in UNION { [1..n -> FatesOf(batchEntry, batchEnv)] : n \in 1..MaxFiles }
  /\ callbackThrows \in BOOLEAN
  /\ filePc = [i \in 1..Len(files) |-> "start"]
  /\ completed = 0
  /\ errors = <<>>
  /\ results = <<>>
  /\ batchCalls = <<>>

\* batchConvert(files, callback) / batchProcess(files, callback) up to its
\* return: the closure variables, then files.forEach
BatchCall ==
  /\ \A i \in 1..Len(files) : filePc[i] = "start"
  /\ LET st == ForEach(Closure(0, <<>>, <<>>, <<>>), batchEntry, batchEnv, 1)
     IN /\ completed' = st.completed
        /\ errors' = st.errors
        /\ results' = st.results
        /\ batchCalls' = st.calls
  /\ filePc' = [i \in 1..Len(files) |-> FirstOperation(batchEntry, batchEnv, files[i])]
  /\ UNCHANGED <<batchEntry, batchEnv, files, callbackThrows>>
  /\ UNCHANGED <<sanVars, pipeVars, blockVars, fnVars, cfgVars>>

\* what the completion of the operation op of a file with this fate leads
\* to: the next operation, or the report.  The fs.readFile callback reports
\* the read error, else runs convert, whose catch block reports what parse
\* or render threw, else goes on to saveHTML; the fs.writeFile callback
\* reports; iframe.onload reports from its catch block or sets the timer;
\* the timer function reports the result
AfterOperation(op, fate) ==
  CASE op = "read" ->
         IF fate \in {"readFails", "parseThrows"} THEN [next |-> "done", failed |-> TRUE]
         ELSE [next |-> "write", failed |-> FALSE]
    [] op = "write" -> [next |-> "done", failed |-> fate = "writeFails"]
    [] op = "onload" ->
         IF fate = "onloadThrows" THEN [next |-> "done", failed |-> TRUE]
         ELSE [next |-> "timer", failed |-> FALSE]
    [] op = "timer" -> [next |-> "done", failed |-> FALSE]

\* the asynchronous operation outstanding for file i completes; no try
\* block encloses a report made from here
Complete(i) ==
  /\ i \in 1..Len(files)
  /\ filePc[i] \in {"read", "write", "onload", "timer"}
  /\ LET a == AfterOperation(filePc[i], files[i])
         st == IF a.next = "done"
               THEN Report(Closure(completed, errors, results, batchCalls), i, a.failed)
               ELSE Closure(completed, errors, results, batchCalls)
     IN /\ filePc' = [filePc EXCEPT ![i] = a.next]
        /\ completed' = st.completed
        /\ errors' = st.errors
        /\ results' = st.results
        /\ batchCalls' = st.calls
  /\ UNCHANGED <<batchEntry, batchEnv, files, callbackThrows>>
  /\ UNCHANGED <<sanVars, pipeVars, blockVars, fnVars, cfgVars>>

NextBatch ==
  \/ BatchCall
  \/ \E i \in 1..MaxFiles : Complete(i)

SpecBatch == InitBatch /\ [][NextBatch]_vars

\* the files that have reported
Reported == { i \in 1..Len(files) : filePc[i] = "done" }

\* the sequence s holds every index of 1..n exactly once
EachIndexOnce(s, n) == Len(s) = n /\ { s[k] : k \in 1..Len(s) } = 1..n

\* file i fails
Fails(i) ==
  \/ files[i] # "ok"
  \/ batchEntry = "batchConvert" /\ batchEnv # "node"
  \/ batchEntry = "batchProcess" /\ batchEnv = "none"

\* C22: the batch callback is invoked exactly once, only after all n files
\* have reported, under every completion order: never twice, never while a
\* file is outstanding, once when all have reported; its arguments hold
\* every file index exactly once in errors or results, the first argument is
\* null exactly when no file failed, and a failing file stops no other.
C22_BatchBarrier ==
  /\ Len(batchCalls) <= 1
  /\ batchCalls # <<>> => Reported = 1..Len(files)
  /\ (Reported = 1..Len(files)) => Len(batchCalls) = 1
  /\ \A k \in 1..Len(batchCalls) :
       /\ EachIndexOnce(batchCalls[k].errors \o batchCalls[k].results, Len(files))
       /\ batchCalls[k].error.null <=> (batchCalls[k].errors = <<>>)
       /\ batchCalls[k].error.null <=> (\A i \in 1..Len(files) : ~Fails(i))
       /\ \A i \in 1..Len(files) :
            Fails(i) <=> \E j \in 1..Len(batchCalls[k].errors) : batchCalls[k].errors[j] = i

\* three files completed out of index order, the second failed, and the
\* batch callback was invoked with the error and the two results
C22_Witness ==
  /\ Len(files) = 3
  /\ Len(batchCalls) = 1
  /\ batchCalls[1].error = ErrorsOrNull(<<2>>)
  /\ batchCalls[1].results = <<3, 1>>

(***************************************************************************)
(* The strings _parseBlocks pushes.  A block of htmlBlocks records the    *)
(* index its detector fired at; the string pushed for it is the html of    *)
(* the parse function called at that index.  LF is the line feed.          *)
(***************************************************************************)
\* Array.prototype.join
RECURSIVE Join(_, _)
Join(ss, sep) ==
  IF ss = <<>> THEN <<>>
  ELSE IF Len(ss) = 1 THEN ss[1]
  ELSE ss[1] \o sep \o Join(Tail(ss), sep)

\* _parseCodeBlock(lines, startIndex): html and nextIndex
ParseCodeBlock(startIndex) ==
  LET language == Trim(SubSeq(Trim(LineAt(startIndex)), 4, Len(Trim(LineAt(startIndex)))))
      i == CodeBlockEnd(startIndex + 1)
      code == [j \in 1..(i - startIndex - 1) |-> EscapeHTML(LineAt(startIndex + j))]
      langClass == IF language # <<>>
                   THEN <<" ", "c", "l", "a", "s", "s", "=", "\"", "l", "a", "n", "g", "u", "a", "g", "e", "-">> \o language \o <<"\"">>
                   ELSE <<>>
  IN [html |-> <<"<", "p", "r", "e", ">", "<", "c", "o", "d", "e">> \o langClass \o <<">">> \o Join(code, <<"LF">>)
                 \o <<"<", "/", "c", "o", "d", "e", ">", "<", "/", "p", "r", "e", ">">>,
      nextIndex |-> i + 1]

\* no line after the one at index k trims to the closing fence marker
Unclosed(k) == \A j \in (k + 1)..(Len(lines) - 1) : Trim(LineAt(j)) # <<"BT", "BT", "BT">>

\* the lines after the one at index k, each HTML-escaped, joined by line feeds
EscapedRest(k) ==
  Join([j \in 1..(Len(lines) - k - 1) |-> EscapeHTML(LineAt(k + j))], <<"LF">>)

\* C23: a fence that opens at line k with no closing fence marker after it
\* yields one code block, the last block emitted, holding the lines k+1..end
\* HTML-escaped in order, and the scan is then past the last line, so that
\* the loop ends without an error.
C23_UnclosedFenceRunsToEnd ==
  \A b \in 1..Len(htmlBlocks) :
    (htmlBlocks[b].kind = "code" /\ Unclosed(htmlBlocks[b].from)) =>
      LET k == htmlBlocks[b].from
          html == ParseCodeBlock(k).html
          body == SubSeq(html, IndexOfFrom(html, ">", Len(<<"<", "p", "r", "e", ">", "<">>)) + 1,
                         Len(html) - Len(<<"<", "/", "c", "o", "d", "e", ">", "<", "/", "p", "r", "e", ">">>))
      IN /\ b = Len(htmlBlocks)
         /\ \A c \in 1..Len(htmlBlocks) : htmlBlocks[c].from = k => c = b
         /\ htmlBlocks[b].next = ParseCodeBlock(k).nextIndex
         /\ scanIndex > Len(lines) - 1
         /\ StartsWith(html, <<"<", "p", "r", "e", ">", "<", "c", "o", "d", "e">>)
         /\ body = EscapedRest(k)
         /\ ENABLED ParseBlocksReturn \/ blocksPc = "done"

\* an unclosed fence with a language, followed by a line that needs escaping
C23_Witness ==
  /\ lines = << <<"a">>, <<"BT", "BT", "BT", "j">>, <<"|", "<", "|", "|", "&">> >>
  /\ blocksPc = "done"
  /\ Len(htmlBlocks) = 2
  /\ htmlBlocks[2].kind = "code"
  /\ ParseCodeBlock(1).html =
       <<"<", "p", "r", "e", ">", "<", "c", "o", "d", "e", " ", "c", "l", "a", "s", "s", "=", "\"", "l", "a", "n", "g", "u", "a", "g", "e", "-", "j", "\"", ">", "|", "&", "l", "t", ";", "|", "|", "&", "a", "m", "p", ";", "<", "/", "c", "o", "d", "e", ">", "<", "/", "p", "r", "e", ">">>

\* String.prototype.split('|'), from position p of the line
RECURSIVE SplitFrom(_, _)
SplitFrom(line, p) ==
  LET m == IndexOfFrom(line, "|", p)
  IN IF m = 0 THEN <<SubSeq(line, p, Len(line))>>
     ELSE <<SubSeq(line, p, m - 1)>> \o SplitFrom(line, m + 1)

\* _parseTableRow(line)
ParseTableRow(line) ==
  LET cells == SplitFrom(line, 1)
  IN SelectSeq([c \in 1..Len(cells) |-> Trim(cells[c])], LAMBDA cell : cell # <<>>)

\* the string  html += open + cell + close + '\n'  builds over the cells
RECURSIVE CellsHtml(_, _, _)
CellsHtml(cells, open, close) ==
  IF cells = <<>> THEN <<>>
  ELSE open \o cells[1] \o close \o <<"LF">> \o CellsHtml(Tail(cells), open, close)

\* _parseTable: the string its rows.forEach builds over the lines from..(to - 1)
RECURSIVE RowsHtml(_, _)
RowsHtml(from, to) ==
  IF from >= to THEN <<>>
  ELSE <<"<", "t", "r", ">", "LF">>
       \o CellsHtml(ParseTableRow(LineAt(from)), <<"<", "t", "d", ">">>, <<"<", "/", "t", "d", ">">>)
       \o <<"<", "/", "t", "r", ">", "LF">> \o RowsHtml(from + 1, to)

\* _parseTable(lines, startIndex): html and nextIndex
ParseTable(startIndex) ==
  LET headers == ParseTableRow(LineAt(startIndex))
      i == TableEnd(startIndex + 2)
  IN [html |-> <<"<", "t", "a", "b", "l", "e", ">", "LF", "<", "t", "h", "e", "a", "d", ">", "LF", "<", "t", "r", ">", "LF">>
                 \o CellsHtml(headers, <<"<", "t", "h", ">">>, <<"<", "/", "t", "h", ">">>)
                 \o <<"<", "/", "t", "r", ">", "LF", "<", "/", "t", "h", "e", "a", "d", ">", "LF", "<", "t", "b", "o", "d", "y", ">", "LF">>
                 \o RowsHtml(startIndex + 2, i)
                 \o <<"<", "/", "t", "b", "o", "d", "y", ">", "LF", "<", "/", "t", "a", "b", "l", "e", ">">>,
      nextIndex |-> i]

\* the elements  <tag>...</tag>  of a string from position p on, in order:
\* the characters between each "<tag>" and the next "</tag>"
RECURSIVE ElementsOf(_, _, _)
ElementsOf(html, tag, p) ==
  LET open == <<"<">> \o tag \o <<">">>
      close == <<"<", "/">> \o tag \o <<">">>
      m == FirstIndex({ i \in p..Len(html) : StartsWith(SubSeq(html, i, Len(html)), open) })
      e == FirstIndex({ i \in (m + Len(open))..Len(html) :
                          StartsWith(SubSeq(html, i, Len(html)), close) })
  IN IF p > Len(html) \/ m = 0 \/ e = 0 THEN <<>>
     ELSE <<SubSeq(html, m + Len(open), e - 1)>> \o ElementsOf(html, tag, e + Len(close))

\* the line has a pipe
HasPipe(line) == \E j \in 1..Len(line) : line[j] = "|"

\* the pieces of a line between its pipes that hold more than whitespace,
\* each without its surrounding whitespace, from left to right
CellsOf(line) ==
  LET pipes == {0, Len(line) + 1} \cup { j \in 1..Len(line) : line[j] = "|" }
      NextPipe(a) == CHOOSE b \in pipes : b > a /\ \A c \in pipes : c > a => b <= c
      starts == { a \in pipes : a <= Len(line) /\ Trim(SubSeq(line, a + 1, NextPipe(a) - 1)) # <<>> }
      Nth(n) == CHOOSE a \in starts : Cardinality({ x \in starts : x < a }) = n - 1
  IN [n \in 1..Cardinality(starts) |-> Trim(SubSeq(line, Nth(n) + 1, NextPipe(Nth(n)) - 1))]

\* the cells of the lines from..(to - 1), in order
RECURSIVE CellsOfLines(_, _)
CellsOfLines(from, to) ==
  IF from >= to THEN <<>> ELSE CellsOf(LineAt(from)) \o CellsOfLines(from + 1, to)

RECURSIVE HasJavascriptHref(_)
HasJavascriptHref(ns) ==
  \E j \in 1..Len(ns) :
    /\ ns[j].type = 1
    /\ \/ \E a \in 1..Len(ns[j].attrs) :
            /\ ns[j].attrs[a].name = "href"
            /\ StartsWith(ns[j].attrs[a].value, <<"j", "a", "v", "a", "s", "c", "r", "i", "p", "t", ":">>)
       \/ HasJavascriptHref(ns[j].kids)

\* the markup holds a comment or a disallowed tag, an on... attribute or a
\* javascript: href
Offending(ns) ==
  ~OnlyAllowedNodes(ns) \/ ~NoEventHandlers(ns) \/ HasJavascriptHref(ns)

\* C25: also without a global document, sanitize changes an input that holds
\* a disallowed tag, an on... attribute or a javascript: href, and its
\* output holds none of them.
C25_WhitelistWithoutDocument ==
  (~hasDocument /\ sanCalls = 1 /\ Offending(ParseHTML(sanHtml))) =>
    /\ sanOut # sanHtml
    /\ ~Offending(ParseHTML(sanOut))

(***************************************************************************)
(* SpecConfig: one MarkdownToPDF instance after its constructor returned;  *)
(* configManager.set, setConfig and convert are called in any order.  The  *)
(* configuration is the record of the options the validation reads and of  *)
(* enableTOC; the boolean options hold JavaScript values with their type.  *)
(***************************************************************************)
MaxSetCalls == 2

Bool(b) == [type |-> "boolean", val |-> IF b THEN "true" ELSE "false"]
Str(s)  == [type |-> "string", val |-> s]

\* the condition  if (value)  on a boolean or a string
IsTrue(v) == IF v.type = "boolean" THEN v.val = "true" ELSE v.val # ""

\* _validateMargins: /^\d+(\.\d+)?(cm|mm|in|px)$/.test(s)
ValidUnits(s) ==
  LET Digits == {"0", "1", "2", "3", "4", "5", "6", "7", "8", "9"}
      Units == {<<"c", "m">>, <<"m", "m">>, <<"i", "n">>, <<"p", "x">>}
      DigitsIn(a, b) == a <= b /\ \A j \in a..b : s[j] \in Digits
  IN \E d \in 1..Len(s) :
       /\ DigitsIn(1, d)
       /\ \/ SubSeq(s, d + 1, Len(s)) \in Units
          \/ /\ d + 1 <= Len(s)
             /\ s[d + 1] = "."
             /\ \E f \in (d + 2)..Len(s) :
                  DigitsIn(d + 2, f) /\ SubSeq(s, f + 1, Len(s)) \in Units

\* ConfigManager.prototype._validateMargins
ValidateMargins(margins) ==
  \A side \in {"top", "right", "bottom", "left"} :
    margins[side] # <<>> /\ ValidUnits(margins[side])

\* ConfigManager.prototype._validate: the error it throws, "none" if it returns
Validate(c) ==
  IF c.pageSize \notin {"A4", "A3", "A5", "Letter", "Legal"} THEN "Invalid page size"
  ELSE IF ~ValidateMargins(c.margins) THEN "Invalid margins configuration"
  ELSE IF c.sanitizeHTML.type # "boolean" THEN "sanitizeHTML must be a boolean"
  ELSE "none"

\* the paths passed to set, split at the dots
Paths == { <<"pageSize">>, <<"margins", "top">>, <<"sanitizeHTML">>, <<"enableTOC">> }

\* the values passed to set for a path: valid ones and ones _validate rejects
ValuesOf(parts) ==
  CASE parts = <<"pageSize">> -> {"A4", "Letter", "B5"}
    [] parts = <<"margins", "top">> -> {<<"2", "c", "m">>, <<"1", ".", "5", "i", "n">>, <<"w", "i", "d", "e">>}
    [] parts = <<"sanitizeHTML">> -> {Bool(TRUE), Bool(FALSE), Str("yes")}
    [] parts = <<"enableTOC">> -> {Bool(TRUE), Bool(FALSE)}

\* ConfigManager.prototype.get
Get(c, parts) ==
  IF Len(parts) = 1 THEN c[parts[1]] ELSE c[parts[1]][parts[2]]

\* ConfigManager.prototype.set: the object after
\* current[parts[parts.length - 1]] = value
Assign(c, parts, value) ==
  IF Len(parts) = 1 THEN [c EXCEPT ![parts[1]] = value]
  ELSE [c EXCEPT ![parts[1]][parts[2]] = value]

\* the configurations the constructor accepts: _mergeWithDefaults of the
\* user configuration, which _validate let pass
InitialConfigs ==
  { [pageSize |-> p,
     margins |-> [top |-> t, right |-> <<"2", "c", "m">>, bottom |-> <<"2", "c", "m">>, left |-> <<"2", "c", "m">>],
     sanitizeHTML |-> Bool(s),
     enableTOC |-> Bool(e)] :
      p \in {"A4", "Letter"}, t \in {<<"2", "c", "m">>, <<"1", ".", "5", "i", "n">>}, s \in BOOLEAN, e \in BOOLEAN }

NoSet == [n |-> 0, via |-> "none", parts |-> <<>>, before |-> <<>>, threw |-> "none"]

\* no convert call yet
NoConvert == [after |-> -1]

\* new MarkdownToPDF(userConfig): configManager.getAll() gives the instance
\* a copy, and the one copy goes to every component
InitConfig ==
  /\ SanParked
  /\ hasDocument = FALSE
  /\ PipeParked
  /\ BlocksParked
  /\ FnParked
  /\ BatchParked
  /\ managerConfig \in InitialConfigs
  /\ facadeConfig = managerConfig
  /\ componentConfig = managerConfig
  /\ lastSet = NoSet
  /\ lastConvert = NoConvert

\* generator.configManager.set(path, value)
ManagerSet(parts, value) ==
  /\ lastSet.n < MaxSetCalls
  /\ managerConfig' = Assign(managerConfig, parts, value)
  /\ lastSet' = [n |-> lastSet.n + 1, via |-> "set", parts |-> parts,
                 before |-> managerConfig, threw |-> Validate(managerConfig')]
  /\ UNCHANGED <<facadeConfig, componentConfig, lastConvert>>
  /\ UNCHANGED <<sanVars, pipeVars, blockVars, fnVars, batchVars>>

\* MarkdownToPDF.prototype.setConfig: this.config is replaced by a new copy
\* unless set threw
SetConfig(parts, value) ==
  /\ lastSet.n < MaxSetCalls
  /\ managerConfig' = Assign(managerConfig, parts, value)
  /\ lastSet' = [n |-> lastSet.n + 1, via |-> "setConfig", parts |-> parts,
                 before |-> managerConfig, threw |-> Validate(managerConfig')]
  /\ facadeConfig' = IF Validate(managerConfig') = "none" THEN managerConfig' ELSE facadeConfig
  /\ UNCHANGED <<componentConfig, lastConvert>>
  /\ UNCHANGED <<sanVars, pipeVars, blockVars, fnVars, batchVars>>

\* MarkdownToPDF.prototype.convert: the configuration each step reads.  The
\* parser passes its config to the plugins, the TOC plugin runs if the
\* constructor registered it, the sanitize step reads this.config, the
\* renderer and generatePrintCSS read their own config.
ConfigConvert ==
  /\ lastConvert' = [after |-> lastSet.n,
                     parser |-> componentConfig,
                     plugins |-> componentConfig,
                     tocRuns |-> IsTrue(componentConfig.enableTOC),
                     sanitizes |-> IsTrue(facadeConfig.sanitizeHTML),
                     renderer |-> componentConfig,
                     generator |-> componentConfig]
  /\ UNCHANGED <<managerConfig, facadeConfig, componentConfig, lastSet>>
  /\ UNCHANGED <<sanVars, pipeVars, blockVars, fnVars, batchVars>>

NextConfig ==
  \/ \E parts \in Paths : \E value \in ValuesOf(parts) : ManagerSet(parts, value)
  \/ \E parts \in Paths : \E value \in ValuesOf(parts) : SetConfig(parts, value)
  \/ ConfigConvert

SpecConfig == InitConfig /\ [][NextConfig]_vars

\* C27: the stored configuration passes validation in every state, and a
\* set or setConfig call that threw left it as it was before the call.
C27_StoredConfigValid ==
  /\ Validate(managerConfig) = "none"
  /\ (lastSet.n > 0 /\ lastSet.threw # "none") => managerConfig = lastSet.before

\* C28: in a conversion that follows a setConfig call that returned, the
\* parser, the plugins, the renderer and the generator use the value that
\* getConfig(path) returns, the TOC plugin runs exactly if enableTOC is set
\* and the sanitize step runs exactly if sanitizeHTML is set.
C28_SetConfigTakesEffect ==
  (lastConvert.after = lastSet.n /\ lastSet.via = "setConfig" /\ lastSet.threw = "none") =>
    LET seen == Get(managerConfig, lastSet.parts)
    IN /\ Get(lastConvert.parser, lastSet.parts) = seen
       /\ Get(lastConvert.plugins, lastSet.parts) = seen
       /\ Get(lastConvert.renderer, lastSet.parts) = seen
       /\ Get(lastConvert.generator, lastSet.parts) = seen
       /\ lastConvert.tocRuns = IsTrue(managerConfig.enableTOC)
       /\ lastConvert.sanitizes = IsTrue(managerConfig.sanitizeHTML)

(***************************************************************************)
(* SpecToc: one call of TOCGenerator._buildTOCTree on a list of headings,  *)
(* each given by its level.  The html is the sequence of its list tags;    *)
(* "a" stands for the link  <a href="#id">text</a>  of an item.            *)
(***************************************************************************)
MaxHeadings == 3

\* _buildTOCTree, lines 105-108: the while loop that closes lists while the
\* heading's level is below the top of the stack
RECURSIVE CloseLevels(_, _, _)
CloseLevels(html, stack, level) ==
  IF Len(stack) > 0 /\ level < stack[Len(stack)]
  THEN CloseLevels(html \o <<"</ul>", "</li>">>, SubSeq(stack, 1, Len(stack) - 1), level)
  ELSE [html |-> html, stack |-> stack]

\* _buildTOCTree, lines 127-130: the while loop that closes the lists left open
RECURSIVE CloseRemaining(_, _)
CloseRemaining(html, stack) ==
  IF Len(stack) > 1
  THEN CloseRemaining(html \o <<"</ul>", "</li>">>, SubSeq(stack, 1, Len(stack) - 1))
  ELSE html

\* _buildTOCTree: the for loop from index i (1-based) on, then the closing
RECURSIVE BuildFrom(_, _, _, _, _)
BuildFrom(headings, i, html, currentLevel, stack) ==
  IF i > Len(headings) THEN CloseRemaining(html, stack) \o <<"</ul>">>
  ELSE LET level == headings[i]
           closed == CloseLevels(html, stack, level)
           deeper == level > currentLevel
           opened == IF deeper THEN closed.html \o <<"<ul>">> ELSE closed.html
           pushed == IF deeper THEN Append(closed.stack, level) ELSE closed.stack
           item == IF i + 1 <= Len(headings) /\ headings[i + 1] > level
                   THEN <<"<li>", "a">> ELSE <<"<li>", "a", "</li>">>
       IN BuildFrom(headings, i + 1, opened \o item, level, pushed)

\* TOCGenerator.prototype._buildTOCTree
BuildTOCTree(headings) ==
  IF Len(headings) = 0 THEN <<>>
  ELSE BuildFrom(headings, 1, <<"<ul>">>, headings[1], <<headings[1]>>)

\* the lists of heading levels passed to _buildTOCTree
HeadingLevels == UNION { [1..n -> 1..6] : n \in 1..MaxHeadings }

InitToc ==
  /\ SanParked
  /\ hasDocument = FALSE
  /\ PipeParked
  /\ BlocksParked
  /\ BatchParked
  /\ CfgParked
  /\ fnArg \in HeadingLevels
  /\ fnRet = <<>>
  /\ fnDone = FALSE

\* this._buildTOCTree(this.headings)
BuildTOCTreeCall ==
  /\ ~fnDone
  /\ fnRet' = BuildTOCTree(fnArg)
  /\ fnDone' = TRUE
  /\ UNCHANGED fnArg
  /\ UNCHANGED <<sanVars, pipeVars, blockVars, batchVars, cfgVars>>

NextToc == BuildTOCTreeCall

SpecToc == InitToc /\ [][NextToc]_vars

\* the tags of html from position i on close only what is open, innermost
\* first, and leave nothing open; open is the sequence of tags open so far
RECURSIVE WellNestedFrom(_, _, _)
WellNestedFrom(html, i, open) ==
  IF i > Len(html) THEN open = <<>>
  ELSE CASE html[i] \in {"<ul>", "<li>"} -> WellNestedFrom(html, i + 1, Append(open, html[i]))
         [] html[i] = "</ul>" ->
              /\ open # <<>>
              /\ open[Len(open)] = "<ul>"
              /\ WellNestedFrom(html, i + 1, SubSeq(open, 1, Len(open) - 1))
         [] html[i] = "</li>" ->
              /\ open # <<>>
              /\ open[Len(open)] = "<li>"
              /\ WellNestedFrom(html, i + 1, SubSeq(open, 1, Len(open) - 1))
         [] OTHER -> WellNestedFrom(html, i + 1, open)

\* C29: for every non-empty list of heading levels the list markup of
\* _buildTOCTree is well nested: no closing tag without its open tag, and
\* every opened <ul> and <li> closed at the end.
C29_TocWellNested ==
  fnDone => WellNestedFrom(fnRet, 1, <<>>)

(***************************************************************************)
(* SpecHeadingInline: parse on the single heading line '#' * n + ' ' +     *)
(* text, whose text holds inline markers: the block stage, then the inline *)
(* stage on the string the block stage returned.                           *)
(***************************************************************************)
MaxMarkedText == 3

MarkedChars == {"a", " ", "_", "*", "~", "BT"}

MarkedHeadings ==
  { [level |-> n, text |-> t] :
      n \in 1..6, t \in UNION { [1..k -> MarkedChars] : k \in 1..MaxMarkedText } }

InitHeadingInline ==
  /\ SanParked
  /\ hasDocument = FALSE
  /\ PipeParked
  /\ BlocksParked
  /\ BatchParked
  /\ CfgParked
  /\ fnArg \in MarkedHeadings
  /\ fnRet = <<>>
  /\ fnDone = FALSE

\* MarkdownParser.prototype.parse without plugins: html = _parseBlocks(html),
\* where the heading detector fires on the line, then html = _parseInline(html)
ParseHeadingLine ==
  /\ ~fnDone
  /\ IsHeadingStart(HeadingLine(fnArg))
  /\ LET blocks == ParseHeading(HeadingLine(fnArg))
     IN fnRet' = [blocks |-> blocks, parsed |-> ParseInline(blocks)]
  /\ fnDone' = TRUE
  /\ UNCHANGED fnArg
  /\ UNCHANGED <<sanVars, pipeVars, blockVars, batchVars, cfgVars>>

NextHeadingInline == ParseHeadingLine

SpecHeadingInline == InitHeadingInline /\ [][NextHeadingInline]_vars

\* C26: for a heading line the id attribute in the output of parse is the
\* id _generateId produced for the heading text: the inline stage leaves the
\* attribute as the block stage wrote it.
C26_HeadingIdSurvivesInline ==
  (fnDone /\ MatchesHeading(HeadingLine(fnArg))) =>
    /\ StartsWith(fnRet.parsed, <<"<", "h", LevelDigit(fnArg.level)>> \o <<" ", "i", "d", "=", "\"">>)
    /\ HeadingId(fnRet.parsed) = GenerateId(Trim(fnArg.text))
    /\ HeadingId(fnRet.parsed) = HeadingId(fnRet.blocks)

\* the indices of the source lines block b was parsed from
LinesOf(b) == { j \in 0..(Len(lines) - 1) : htmlBlocks[b].from <= j /\ j < htmlBlocks[b].next }

\* the entries of html.join('\n') are in the order of the array: a block that
\* starts on an earlier line stands before one that starts on a later line,
\* and no line lies in the lines of two blocks
OrderedAndDisjoint ==
  /\ \A a, b \in 1..Len(htmlBlocks) :
       htmlBlocks[a].from < htmlBlocks[b].from => a < b
  /\ \A a, b \in 1..Len(htmlBlocks) :
       a # b => LinesOf(a) \cap LinesOf(b) = {}

====
